---- MODULE Spec2Model ----
(***************************************************************************)
(* DockForge: the command orchestration core of the VS Code extension.     *)
(* Strings are TLA+ strings; TLC evaluates Len, SubSeq and \o on them, so  *)
(* the string functions of the source (split, includes, join, trim) are    *)
(* computed character by character.                                        *)
(***************************************************************************)
EXTENDS Integers, Sequences, FiniteSets, TLC

(***************************************************************************)
(* Bounds of the model.                                                    *)
(***************************************************************************)
\* data events ('data' on stdout or stderr) one engine process may emit
MaxChunks == 2

(***************************************************************************)
(* JavaScript string functions.                                            *)
(***************************************************************************)
\* String.prototype.indexOf for a one-character needle, 1-based, 0 = absent
IndexOf(s, c) ==
  IF \E i \in 1..Len(s) : SubSeq(s, i, i) = c
  THEN CHOOSE i \in 1..Len(s) :
         /\ SubSeq(s, i, i) = c
         /\ \A j \in 1..(i - 1) : SubSeq(s, j, j) # c
  ELSE 0

\* String.prototype.includes
Includes(s, sub) ==
  \E i \in 1..(Len(s) - Len(sub) + 1) : SubSeq(s, i, i + Len(sub) - 1) = sub

\* String.prototype.split with a one-character separator
RECURSIVE Split(_, _)
Split(s, c) ==
  LET i == IndexOf(s, c)
  IN  IF i = 0 THEN <<s>>
      ELSE <<SubSeq(s, 1, i - 1)>> \o Split(SubSeq(s, i + 1, Len(s)), c)

\* Array.prototype.join
RECURSIVE Join(_, _)
Join(seq, sep) ==
  IF seq = <<>> THEN ""
  ELSE IF Len(seq) = 1 THEN seq[1]
  ELSE seq[1] \o sep \o Join(Tail(seq), sep)

\* Array.prototype.filter(Boolean) on an array of strings
FilterBoolean(seq) == SelectSeq(seq, LAMBDA x : x # "")

IsSpace(c) == c \in {" ", "\n", "\t"}

\* String.prototype.trim
RECURSIVE TrimStart(_)
TrimStart(s) ==
  IF s # "" /\ IsSpace(SubSeq(s, 1, 1)) THEN TrimStart(SubSeq(s, 2, Len(s))) ELSE s

RECURSIVE TrimEnd(_)
TrimEnd(s) ==
  IF s # "" /\ IsSpace(SubSeq(s, Len(s), Len(s)))
  THEN TrimEnd(SubSeq(s, 1, Len(s) - 1)) ELSE s

Trim(s) == TrimEnd(TrimStart(s))

Digits == {"0", "1", "2", "3", "4", "5", "6", "7", "8", "9"}

\* [a-f0-9] under the i flag
HexChars == Digits \cup {"a", "b", "c", "d", "e", "f", "A", "B", "C", "D", "E", "F"}

\* s from position i on
From(s, i) == SubSeq(s, i, Len(s))

\* String.prototype.substring(a - 1, b): positions a..b, as far as s reaches
Slice(s, a, b) ==
  IF a > Len(s) THEN "" ELSE SubSeq(s, a, IF b > Len(s) THEN Len(s) ELSE b)

\* the length of the longest prefix of s made of characters of cs
RECURSIVE PrefixLen(_, _)
PrefixLen(s, cs) ==
  IF s # "" /\ SubSeq(s, 1, 1) \in cs
  THEN 1 + PrefixLen(From(s, 2), cs)
  ELSE 0

\* Number.parseInt(s, 10) of a string of digits
DigitValue(c) ==
  CHOOSE n \in 0..9 : SubSeq("0123456789", n + 1, n + 1) = c

RECURSIVE ParseInt(_)
ParseInt(s) ==
  IF Len(s) = 1 THEN DigitValue(s)
  ELSE 10 * ParseInt(SubSeq(s, 1, Len(s) - 1)) + DigitValue(SubSeq(s, Len(s), Len(s)))

UpperLetters == "ABCDEFGHIJKLMNOPQRSTUVWXYZ"
LowerLetters == "abcdefghijklmnopqrstuvwxyz"

LowerChar(c) ==
  LET i == IndexOf(UpperLetters, c)
  IN  IF i = 0 THEN c ELSE SubSeq(LowerLetters, i, i)

\* String.prototype.toLowerCase
RECURSIVE ToLowerCase(_)
ToLowerCase(s) ==
  IF s = "" THEN "" ELSE LowerChar(SubSeq(s, 1, 1)) \o ToLowerCase(SubSeq(s, 2, Len(s)))

\* path.join(a, b) for a normalised directory a; path.join(a, "") is a
PathJoin(a, b) == IF b = "" THEN a ELSE a \o "/" \o b

(***************************************************************************)
(* What the operating system hands to the engine process.                  *)
(***************************************************************************)
\* The words /bin/sh -c makes of a command line: split at blanks, empty
\* words dropped (quoting and the other metacharacters are not modelled)
ShellWords(line) == FilterBoolean(Split(line, " "))

\* child_process.spawn(cmd, args, {shell: true}): cmd and args are joined
\* with blanks into one command line for the shell
SpawnShell(cmd, argv) == ShellWords(Join(<<cmd>> \o argv, " "))

\* child_process.spawn(file, args) without a shell: argv reaches the
\* process element by element
SpawnDirect(file, argv) == <<file>> \o argv

\* child_process.exec(command): the command line is run by the shell
ExecShell(command) == ShellWords(command)

(***************************************************************************)
(* State.                                                                  *)
(***************************************************************************)
VARIABLES
  call,               \* the exported function called and its arguments
  pc,                 \* position of the call: idle, spawn, awaiting, settle,
                      \* returned, rejected
  stage,              \* the invocation in progress: none, build, run, push
  fsFiles,            \* paths of the files on disk
  tempDockerfilePath, \* buildDockerImage's local; "" is undefined
  unlinkFailed,       \* fs.unlinkSync threw inside cleanupTempDockerfile
  args,               \* the argument vector composed for the invocation
  procs,              \* per stage, the child process and what it received
  resolved,           \* the invocation's promise has been resolved
  pending,            \* what the awaiting function resumes with
  logs,               \* the logs array of the invocation in progress
  errorOutput,        \* executeDockerCommand's local accumulator
  onOutputLines,      \* the lines handed to the caller's onOutput callback
  channel,            \* lines appended to the "DockForge - Docker" channel
  results,            \* per stage, the result value returned to the caller
  outcome,            \* the returned promise: pending, fulfilled, rejected
  resolvedDockerPath, \* dockerPath's module-level cache; "" is undefined
  pathCalls,          \* the calls of resolveDockerPath, in order
  processEnv,         \* process.env of the extension host
  dockerEnv,          \* what getDockerEnv returned last; NoEnv before
  inserts,            \* the INSERT_TO_WORKSPACE requests handled, in order
  auth,               \* DockerHubAuthManager: SecretStorage, events fired, calls made
  dockerfileItems,    \* DockerfileTreeDataProvider.dockerfileItems
  memento,            \* globalState's value under the provider's storage key
  panels,             \* DockForgePanel.panels: id to panel, 0 where absent
  webviewPanels,      \* the webview panels created, in order of creation
  treeCalls,          \* the tree and panel operations performed, in order
  dateNow,            \* what Date.now() returns, in milliseconds
  uiAction,           \* the user action being handled; "none" before it
  uiPc,               \* position of the handler of the user action
  payload,            \* the webview message's payload and the workspace folder
  guardPc,            \* position inside ensureDockerReady
  installed,          \* checkDockerInstalled's answer: unknown, yes, no
  running,            \* checkDockerRunning's answer: unknown, yes, no
  guardReturn,        \* what ensureDockerReady returned: none, true, false
  probes,             \* the probe commands run, in order
  messages,           \* notifications and modal dialogs shown, in order
  execs,              \* engine commands run through exec, in order
  terminals,          \* terminals created, with the text sent to each
  runMode,            \* the images tree's run mode picked: none or a mode
  pushName,           \* interactivePush's imageName argument
  pushTag,            \* interactivePush's imageTag argument
  pushOrig,           \* the image reference the user asked to push
  pushDepth,          \* how many times interactivePush called itself
  pushReturn,         \* what interactivePush returned: none, undefined, result
  tagInput,           \* interactiveTag's newName and the target it tags
  posted,             \* messages posted to the builder webview, in order
  login,              \* the login calls, their engine reply and SecretStorage
  engineOutput,       \* the chunks the engine process may write, per stream
  conc,               \* builds that overlap in time, and the clock they read
  panel               \* one builder webview and its handlers in the extension

builderVars == <<dockerfileItems, memento, panels, webviewPanels, treeCalls, dateNow>>

hostVars == <<processEnv, dockerEnv, inserts, auth, builderVars>>

orchVars == <<call, pc, stage, fsFiles, tempDockerfilePath, unlinkFailed, args,
              procs, resolved, pending, logs, errorOutput, onOutputLines,
              channel, results, outcome, resolvedDockerPath, pathCalls, hostVars, engineOutput>>

uiVars == <<uiAction, uiPc, payload, guardPc, installed, running, guardReturn,
            probes, messages, execs, terminals, runMode, pushName, pushTag,
            pushOrig, pushDepth, pushReturn, tagInput, posted, login, conc,
            panel>>

guardVars == <<guardPc, installed, running, guardReturn, probes>>
treeVars == <<execs, terminals, runMode>>
pushVars == <<pushName, pushTag, pushOrig, pushDepth, pushReturn, tagInput>>

vars == <<orchVars, uiVars>>

Stages == {"build", "run", "push"}

(***************************************************************************)
(* dockerPath: the engine executable.                                      *)
(***************************************************************************)
HomeDir == "/home/u"

DOCKER_SEARCH_PATHS ==
  << "/usr/local/bin", "/opt/homebrew/bin", "/usr/bin", "/usr/local/sbin",
     "/opt/local/bin", "/Applications/Docker.app/Contents/Resources/bin",
     PathJoin(PathJoin(HomeDir, ".rd"), "bin"), "/snap/bin" >>

\* path.delimiter
PathDelimiter == ":"

\* an enrichment that prepends every well-known directory
GetEnrichedPath_PrependsAll(currentPath) ==
  Join(DOCKER_SEARCH_PATHS \o <<currentPath>>, PathDelimiter)

\* getEnrichedPath(): the well-known directories that are not entries of
\* the current PATH, then the current PATH
GetEnrichedPath(currentPath) ==
  LET entries == Split(currentPath, PathDelimiter)
      extraDirs == SelectSeq(DOCKER_SEARCH_PATHS,
                             LAMBDA dir : \A i \in 1..Len(entries) : entries[i] # dir)
  IN  Join(extraDirs \o <<currentPath>>, PathDelimiter)

\* getDockerEnv(extra): {...process.env, ...extra, PATH: getEnrichedPath()}
GetDockerEnv(env, extra) ==
  [k \in DOMAIN env \cup DOMAIN extra \cup {"PATH"} |->
     IF k = "PATH" THEN GetEnrichedPath(env.PATH)
     ELSE IF k \in DOMAIN extra THEN extra[k] ELSE env[k]]

\* SecretStorage without the two keys, no event fired, no call made
NoSecrets == [username |-> "", token |-> ""]
NoAuth == [secrets |-> NoSecrets, fired |-> <<>>, history |-> <<>>,
           pc |-> "idle", username |-> "", token |-> ""]

\* no environment has been composed
NoEnv == [none |-> "TRUE"]

\* the largest reading of the millisecond clock
MaxNow == 2

\* createDefaultDockerfileData's id: `dockerfile-${Date.now()}`
DockerfileId(now) == "dockerfile-" \o ToString(now)

\* the keys DockForgePanel.panels can hold: showDockForge's and the tree's
PanelIds == {"default"} \cup {DockerfileId(t) : t \in 1..MaxNow}

\* DockForgePanel.panels = new Map()
NoPanels == [id \in PanelIds |-> 0]

\* process.env at the start of the extension host; an unset PATH reads as ""
InitialEnvs == { [PATH |-> "/usr/bin:/bin"] }

\* the shell's lookup of a command name along a search path: some
\* directory of the path holds a file of that name
ShellFinds(cmd, searchPath, files) ==
  LET dirs == Split(searchPath, PathDelimiter)
  IN  \E i \in 1..Len(dirs) : dirs[i] # "" /\ PathJoin(dirs[i], cmd) \in files

\* the first well-known directory that holds a docker binary, else "docker"
ProbeDockerPath(files) ==
  LET hits == {i \in 1..Len(DOCKER_SEARCH_PATHS) :
                 PathJoin(DOCKER_SEARCH_PATHS[i], "docker") \in files}
  IN  IF hits = {} THEN "docker"
      ELSE PathJoin(DOCKER_SEARCH_PATHS[CHOOSE i \in hits : \A j \in hits : i <= j],
                    "docker")

\* the loop over DOCKER_SEARCH_PATHS from index i: each candidate handed to
\* fs.existsSync and the answer, up to the first one that exists
RECURSIVE ExistsSyncFrom(_, _)
ExistsSyncFrom(i, files) ==
  IF i > Len(DOCKER_SEARCH_PATHS) THEN <<>>
  ELSE LET candidate == PathJoin(DOCKER_SEARCH_PATHS[i], "docker")
       IN  IF candidate \in files
           THEN << [candidate |-> candidate, exists |-> TRUE] >>
           ELSE << [candidate |-> candidate, exists |-> FALSE] >>
                \o ExistsSyncFrom(i + 1, files)

\* the fs.existsSync calls one resolveDockerPath() call makes
ExistsSyncCalls(cache, files) ==
  IF cache # "" THEN <<>> ELSE ExistsSyncFrom(1, files)

\* a resolution that probes the disk on every call
ResolveDockerPath_AlwaysProbes(cache, files) ==
  ProbeDockerPath(files)

\* resolveDockerPath(): the cached path when there is one
ResolveDockerPath(cache, files) ==
  IF cache # "" THEN cache ELSE ProbeDockerPath(files)

\* one resolveDockerPath() call as it is recorded in pathCalls
PathCall(cache, files) ==
  [returned |-> ResolveDockerPath(cache, files),
   probed   |-> ExistsSyncCalls(cache, files)]

(***************************************************************************)
(* Temporary build file.                                                   *)
(***************************************************************************)
\* createTempDockerfile: the path written
TempDockerfilePath(contextPath, dockerfileId) ==
  PathJoin(PathJoin(contextPath, ""), "Dockerfile." \o dockerfileId)

\* cleanupTempDockerfile's condition for unlinking
CleanupUnlinks(files, dockerfilePath) ==
  dockerfilePath \in files /\ Includes(dockerfilePath, ".dockforge")

\* cleanupTempDockerfile: the files left on disk
CleanupTempDockerfile(files, dockerfilePath, unlinkOk) ==
  IF CleanupUnlinks(files, dockerfilePath) /\ unlinkOk
  THEN files \ {dockerfilePath} ELSE files

(***************************************************************************)
(* Argument vectors.                                                       *)
(***************************************************************************)
\* for (const [key, value] of Object.entries(rec)) args.push(flag, key=value)
RECURSIVE KeyValueFlags(_, _)
KeyValueFlags(flag, entries) ==
  IF entries = <<>> THEN <<>>
  ELSE <<flag, entries[1][1] \o "=" \o entries[1][2]>>
       \o KeyValueFlags(flag, Tail(entries))

\* a loop that pushes the flag once, before the values
ListFlags_FlagOnce(flag, list) ==
  IF list = <<>> THEN <<>> ELSE <<flag>> \o list

\* for (const v of list) args.push(flag, v)
RECURSIVE ListFlags(_, _)
ListFlags(flag, list) ==
  IF list = <<>> THEN <<>>
  ELSE <<flag, list[1]>> \o ListFlags(flag, Tail(list))

\* a composition that lets --pull take the place of --no-cache
BuildArgv_PullReplacesNoCache(o, dockerfilePath) ==
  <<"build", "-t", o.imageName \o ":" \o o.imageTag, "-f", dockerfilePath>>
  \o (IF o.pull THEN <<"--pull">> ELSE IF o.noCache THEN <<"--no-cache">> ELSE <<>>)
  \o (IF o.target # "" THEN <<"--target", o.target>> ELSE <<>>)
  \o (IF o.platform # "" THEN <<"--platform", o.platform>> ELSE <<>>)
  \o KeyValueFlags("--build-arg", o.buildArgs)
  \o <<o.contextPath>>

\* a composition that pushes --pull before --no-cache
BuildArgv_PullFirst(o, dockerfilePath) ==
  <<"build", "-t", o.imageName \o ":" \o o.imageTag, "-f", dockerfilePath>>
  \o (IF o.pull THEN <<"--pull">> ELSE <<>>)
  \o (IF o.noCache THEN <<"--no-cache">> ELSE <<>>)
  \o (IF o.target # "" THEN <<"--target", o.target>> ELSE <<>>)
  \o (IF o.platform # "" THEN <<"--platform", o.platform>> ELSE <<>>)
  \o KeyValueFlags("--build-arg", o.buildArgs)
  \o <<o.contextPath>>

\* buildDockerImage: the build argument vector
BuildArgv(o, dockerfilePath) ==
  <<"build", "-t", o.imageName \o ":" \o o.imageTag, "-f", dockerfilePath>>
  \o (IF o.noCache THEN <<"--no-cache">> ELSE <<>>)
  \o (IF o.pull THEN <<"--pull">> ELSE <<>>)
  \o (IF o.target # "" THEN <<"--target", o.target>> ELSE <<>>)
  \o (IF o.platform # "" THEN <<"--platform", o.platform>> ELSE <<>>)
  \o KeyValueFlags("--build-arg", o.buildArgs)
  \o <<o.contextPath>>

\* runDockerContainer: the run argument vector
RunArgv(o) ==
  <<"run">>
  \o (IF o.containerName # "" THEN <<"--name", o.containerName>> ELSE <<>>)
  \o (IF o.detached THEN <<"-d">> ELSE <<>>)
  \o (IF o.remove THEN <<"--rm">> ELSE <<>>)
  \o (IF o.interactive THEN <<"-i">> ELSE <<>>)
  \o (IF o.tty THEN <<"-t">> ELSE <<>>)
  \o ListFlags("-p", o.portMappings)
  \o KeyValueFlags("-e", o.envVariables)
  \o ListFlags("-v", o.volumes)
  \o (IF o.workingDir # "" THEN <<"-w", o.workingDir>> ELSE <<>>)
  \o (IF o.network # "" THEN <<"--network", o.network>> ELSE <<>>)
  \o <<o.imageName \o ":" \o o.imageTag>>

\* pushImageToHub: the push argument vector
PushArgv(fullImage) == <<"push", fullImage>>

\* a test build that keeps the caller's tag
TestBuildOptions_SameTag(o, now) == [o EXCEPT !.noCache = TRUE]

\* testBuild: the options handed on to buildDockerImage
TestBuildOptions(o, now) ==
  [o EXCEPT !.imageTag = o.imageTag \o "-test-" \o now, !.noCache = TRUE]

\* buildAndRun: the options handed on to runDockerContainer
BuildAndRunRunOptions(b, r) ==
  [r EXCEPT !.imageName = b.imageName, !.imageTag = b.imageTag]

\* what the engine process of a stage receives as its argument vector
EngineReceives(s, argv, dockerPath) ==
  IF s = "push" THEN SpawnDirect(dockerPath, argv) ELSE SpawnShell("docker", argv)

(***************************************************************************)
(* Inputs of the orchestration calls.                                      *)
(***************************************************************************)
ContextPaths == {"/ws", "/my ws", "/ws/.dockforge"}

\* Date.now().toString() at the moments the code reads the clock
Timestamps == {"1001", "1002"}

BuildOptionsSet ==
  { [ imageName |-> "app", imageTag |-> "latest",
      dockerfile |-> f, dockerfileContent |-> c, contextPath |-> p,
      noCache |-> full, pull |-> full,
      target |-> IF full THEN "dev" ELSE "",
      platform |-> IF full THEN "linux/amd64" ELSE "",
      buildArgs |-> IF full THEN << <<"MSG", "a b">> >> ELSE <<>> ] :
    f \in {"", "/ws/Dockerfile"}, c \in {"", "FROM a"},
    p \in ContextPaths, full \in BOOLEAN }

RunOptionsSet ==
  { [ imageName |-> "app", imageTag |-> "latest",
      containerName |-> n, detached |-> d, remove |-> ~d,
      interactive |-> ~d, tty |-> ~d,
      portMappings |-> IF d THEN <<"8080:80">> ELSE <<>>,
      envVariables |-> IF d THEN << <<"MSG", "a b">> >> ELSE <<>>,
      volumes |-> IF d THEN <<>> ELSE <<"/my ws:/data">>,
      workingDir |-> IF d THEN "" ELSE "/data",
      network |-> IF d THEN "" ELSE "host" ] :
    n \in {"", "web"}, d \in BOOLEAN }

\* the panel's build-and-run request: inline text and no build flags, a
\* detached container
BuildAndRunBuildOptions ==
  {o \in BuildOptionsSet : o.dockerfile = "" /\ ~o.noCache}
BuildAndRunRunOptionsSet == {r \in RunOptionsSet : r.detached}

PushImages == {"u/app:latest", "app:latest"}

\* the disk before the call: the workspace's own Dockerfile, with or
\* without an engine binary in a well-known directory
InitialDisks ==
  { {"/ws/Dockerfile"}, {"/ws/Dockerfile", "/usr/bin/docker"} }

NoOptions == [none |-> TRUE]
NoCall == [kind |-> "none", build |-> NoOptions, run |-> NoOptions, image |-> "",
           given |-> NoOptions,
           onOutput |-> FALSE, onProgress |-> FALSE]

\* onOutput?.(line): the lines the caller's callback has received
Deliver(c, delivered, lines) ==
  IF c.onOutput THEN delivered \o lines ELSE delivered

\* one chunk of process output, as a 'data' event carries it
StdoutChunks == {"a\n \nb\n"}
StderrChunks == {"Error: x\n", "#1 done\n"}

\* exit codes of the 'close' event, as `${code}` prints them
ExitCodes == {"0", "1", "null"}

\* child_process.spawn: the process starts, or fails to launch ('error' is
\* emitted later), or spawn itself throws (an argument it rejects), or there
\* is no engine executable to run
SpawnOutcomes == {"started", "launchError", "throws", "noEngine"}

\* what the shell of spawn(..., {shell: true}) writes and exits with when the
\* command it is given does not exist
ShellNotFoundOutput == "/bin/sh: 1: docker: not found\n"
ShellNotFoundCode == "127"

\* the 'error' event's message when the shell itself cannot be started
ShellLaunchErrorMessage == "spawn /bin/sh EAGAIN"

LaunchErrorMessage == "spawn docker ENOENT"
SpawnThrowMessage == "The argument 'args' must be a string without null bytes"
WriteErrorMessage == "EACCES: permission denied, open"

NoProc == [state |-> "none", argv |-> <<>>, received |-> <<>>, code |-> "",
           chunks |-> 0, engine |-> TRUE, imageId |-> "", containerId |-> "",
           progress |-> <<>>, outText |-> "", errText |-> "",
           outLines |-> <<>>, errLines |-> <<>>, digest |-> ""]
NoResult == [set |-> FALSE, success |-> FALSE, error |-> "", logs |-> <<>>,
             imageId |-> "", containerId |-> "", digest |-> ""]
NoPending == [type |-> "none", success |-> FALSE, error |-> ""]
Value(ok, err) == [type |-> "value", success |-> ok, error |-> err]
Thrown(msg) == [type |-> "throw", success |-> FALSE, error |-> msg]

OrchBaseOn(disks, envs) ==
  /\ call = NoCall
  /\ pc = "idle"
  /\ stage = "none"
  /\ fsFiles \in disks
  /\ tempDockerfilePath = ""
  /\ unlinkFailed = FALSE
  /\ args = <<>>
  /\ procs = [s \in Stages |-> NoProc]
  /\ resolved = FALSE
  /\ pending = NoPending
  /\ logs = <<>>
  /\ errorOutput = ""
  /\ onOutputLines = <<>>
  /\ channel = <<>>
  /\ results = [s \in Stages |-> NoResult]
  /\ outcome = "pending"
  /\ resolvedDockerPath = ""
  /\ pathCalls = <<>>
  /\ processEnv \in envs
  /\ dockerEnv = NoEnv
  /\ inserts = <<>>
  /\ auth = NoAuth
  /\ dockerfileItems = <<>>
  /\ memento = <<>>
  /\ panels = NoPanels
  /\ webviewPanels = <<>>
  /\ treeCalls = <<>>
  /\ dateNow = 1

OrchBaseIn(envs) == OrchBaseOn(InitialDisks, envs)

OrchBase == OrchBaseIn(InitialEnvs)

\* no call has been made; the engine writes short lines, a chunk at a time
OrchInit ==
  /\ OrchBase
  /\ engineOutput = [stdout |-> StdoutChunks, stderr |-> StderrChunks]

NoPayload == [none |-> TRUE]
NoTagInput == [newName |-> "", source |-> "", target |-> "", tag |-> ""]
NoLoginRun == [pc |-> "idle", username |-> "", token |-> "", commandLine |-> "",
               received |-> <<>>, stdin |-> "", returned |-> <<>>]
NoLogin == [runs |-> [i \in {1, 2} |-> NoLoginRun], reply |-> "none",
            secrets |-> <<>>]

NoBuildCall == [pc |-> "idle", content |-> "", tmp |-> "", input |-> ""]
NoConc == [calls |-> [i \in {1, 2} |-> NoBuildCall], clock |-> 0,
           contextPath |-> "", disk |-> <<>>, existing |-> <<>>]
NoPanel == [isBuilding |-> FALSE, clicks |-> 0, toExtension |-> <<>>,
            operations |-> <<>>, toWebview |-> <<>>]

\* the extension is activated and no user action has been handled yet
UIBase ==
  /\ uiAction = "none"
  /\ uiPc = "idle"
  /\ payload = NoPayload
  /\ guardPc = "notCalled"
  /\ installed = "unknown"
  /\ running = "unknown"
  /\ guardReturn = "none"
  /\ probes = <<>>
  /\ messages = <<>>
  /\ execs = <<>>
  /\ terminals = <<>>
  /\ runMode = "none"
  /\ pushName = ""
  /\ pushTag = ""
  /\ pushOrig = ""
  /\ pushDepth = 0
  /\ pushReturn = "none"
  /\ tagInput = NoTagInput
  /\ posted = <<>>
  /\ conc = NoConc
  /\ panel = NoPanel

UIInit == UIBase /\ login = NoLogin

\* the extension after activation, before any call
Init == OrchInit /\ UIInit

(***************************************************************************)
(* buildDockerImage up to the call of executeDockerCommand.                *)
(* The channel keeps the text of each line without its decoration.         *)
(***************************************************************************)
\* a build that falls back to the file named Dockerfile when it is given
\* no build input
BeginBuild_DefaultFile(o, now, writeOk) ==
  LET tmp == TempDockerfilePath(o.contextPath, now)
      banner == <<"Building Docker Image: " \o o.imageName \o ":" \o o.imageTag>>
      runLine(path) == "Running: docker " \o Join(BuildArgv(o, path), " ")
  IN
  /\ stage' = "build"
  /\ IF o.dockerfileContent # "" /\ writeOk
     THEN /\ fsFiles' = fsFiles \cup {tmp}
          /\ tempDockerfilePath' = tmp
          /\ args' = BuildArgv(o, tmp)
          /\ channel' = channel \o banner
                        \o <<"Using Dockerfile from DockForge", runLine(tmp)>>
          /\ pending' = NoPending
          /\ pc' = "spawn"
     ELSE IF o.dockerfileContent # ""
     THEN \* fs.mkdirSync or fs.writeFileSync throws
          /\ channel' = channel \o banner
          /\ pending' = Thrown(WriteErrorMessage)
          /\ pc' = "settle"
          /\ UNCHANGED <<fsFiles, tempDockerfilePath, args>>
     ELSE IF o.dockerfile # ""
     THEN /\ args' = BuildArgv(o, o.dockerfile)
          /\ channel' = channel \o banner
                        \o <<"Using existing Dockerfile: " \o o.dockerfile,
                             runLine(o.dockerfile)>>
          /\ pending' = NoPending
          /\ pc' = "spawn"
          /\ UNCHANGED <<fsFiles, tempDockerfilePath>>
     ELSE /\ args' = BuildArgv(o, "Dockerfile")
          /\ channel' = channel \o banner \o <<runLine("Dockerfile")>>
          /\ pending' = NoPending
          /\ pc' = "spawn"
          /\ UNCHANGED <<fsFiles, tempDockerfilePath>>

BeginBuild(o, now, writeOk) ==
  LET tmp == TempDockerfilePath(o.contextPath, now)
      banner == <<"Building Docker Image: " \o o.imageName \o ":" \o o.imageTag>>
      runLine(path) == "Running: docker " \o Join(BuildArgv(o, path), " ")
  IN
  /\ stage' = "build"
  /\ IF o.dockerfileContent # "" /\ writeOk
     THEN /\ fsFiles' = fsFiles \cup {tmp}
          /\ tempDockerfilePath' = tmp
          /\ args' = BuildArgv(o, tmp)
          /\ channel' = channel \o banner
                        \o <<"Using Dockerfile from DockForge", runLine(tmp)>>
          /\ pending' = NoPending
          /\ pc' = "spawn"
     ELSE IF o.dockerfileContent # ""
     THEN \* fs.mkdirSync or fs.writeFileSync throws
          /\ channel' = channel \o banner
          /\ pending' = Thrown(WriteErrorMessage)
          /\ pc' = "settle"
          /\ UNCHANGED <<fsFiles, tempDockerfilePath, args>>
     ELSE IF o.dockerfile # ""
     THEN /\ args' = BuildArgv(o, o.dockerfile)
          /\ channel' = channel \o banner
                        \o <<"Using existing Dockerfile: " \o o.dockerfile,
                             runLine(o.dockerfile)>>
          /\ pending' = NoPending
          /\ pc' = "spawn"
          /\ UNCHANGED <<fsFiles, tempDockerfilePath>>
     ELSE /\ channel' = channel \o banner
          /\ pending' = Thrown("No Dockerfile or Dockerfile content provided")
          /\ pc' = "settle"
          /\ UNCHANGED <<fsFiles, tempDockerfilePath, args>>

\* buildDockerImage(options, onOutput, onProgress)
StartBuildFrom(optionsSet) ==
  /\ pc = "idle"
  /\ \E o \in optionsSet, now \in Timestamps, writeOk \in BOOLEAN :
       /\ call' = [NoCall EXCEPT !.kind = "build", !.build = o, !.onOutput = TRUE,
                                 !.onProgress = TRUE]
       /\ BeginBuild(o, now, writeOk)
  /\ UNCHANGED <<unlinkFailed, procs, resolved, logs, errorOutput,
                 onOutputLines, results, outcome, resolvedDockerPath, pathCalls, hostVars,
                 uiVars, engineOutput>>

StartBuild == StartBuildFrom(BuildOptionsSet)

\* testBuild(options, onOutput)
StartTestBuildFrom(optionsSet) ==
  /\ pc = "idle"
  /\ \E o \in optionsSet, tagNow \in Timestamps, now \in Timestamps,
        writeOk \in BOOLEAN :
       LET t == TestBuildOptions(o, tagNow)
       IN  /\ call' = [NoCall EXCEPT !.kind = "testBuild", !.build = t,
                                     !.given = o,
                                     !.onOutput = TRUE]
           /\ BeginBuild(t, now, writeOk)
  /\ UNCHANGED <<unlinkFailed, procs, resolved, logs, errorOutput,
                 onOutputLines, results, outcome, resolvedDockerPath, pathCalls, hostVars,
                 uiVars, engineOutput>>

StartTestBuild == StartTestBuildFrom(BuildOptionsSet)

\* buildAndRun(buildOptions, runOptions, onOutput)
StartBuildAndRun ==
  /\ pc = "idle"
  /\ \E o \in BuildAndRunBuildOptions, r \in BuildAndRunRunOptionsSet,
        now \in Timestamps, writeOk \in BOOLEAN :
       /\ call' = [NoCall EXCEPT !.kind = "buildAndRun", !.build = o,
                                 !.run = BuildAndRunRunOptions(o, r),
                                 !.onOutput = TRUE]
       /\ BeginBuild(o, now, writeOk)
  /\ UNCHANGED <<unlinkFailed, procs, resolved, logs, errorOutput,
                 onOutputLines, results, outcome, resolvedDockerPath, pathCalls, hostVars,
                 uiVars, engineOutput>>

\* runDockerContainer up to the call of executeDockerCommand
BeginRun(r) ==
  /\ stage' = "run"
  /\ args' = RunArgv(r)
  /\ channel' = channel
                \o <<"Running Container: " \o r.imageName \o ":" \o r.imageTag,
                     "Running: docker " \o Join(RunArgv(r), " ")>>
  /\ pending' = NoPending
  /\ pc' = "spawn"

\* runDockerContainer(options, onOutput)
StartRunFrom(optionsSet) ==
  /\ pc = "idle"
  /\ \E r \in optionsSet :
       /\ call' = [NoCall EXCEPT !.kind = "run", !.run = r, !.onOutput = TRUE]
       /\ BeginRun(r)
  /\ UNCHANGED <<fsFiles, tempDockerfilePath, unlinkFailed, procs, resolved,
                 logs, errorOutput, onOutputLines, results, outcome,
                 resolvedDockerPath, pathCalls, hostVars,
                 uiVars, engineOutput>>

StartRun == StartRunFrom(RunOptionsSet)

\* pushImageToHub(fullImage, onOutput) up to the call of dockerSpawn
StartPush ==
  /\ pc = "idle"
  /\ \E image \in PushImages :
       /\ call' = [NoCall EXCEPT !.kind = "push", !.image = image,
                                 !.onOutput = TRUE]
       /\ args' = PushArgv(image)
       /\ channel' = channel \o <<"Pushing " \o image>>
  /\ stage' = "push"
  /\ pending' = NoPending
  /\ pc' = "spawn"
  /\ UNCHANGED <<fsFiles, tempDockerfilePath, unlinkFailed, procs, resolved,
                 logs, errorOutput, onOutputLines, results, outcome,
                 resolvedDockerPath, pathCalls, hostVars,
                 uiVars, engineOutput>>

(***************************************************************************)
(* The engine process: executeDockerCommand and pushImageToHub.            *)
(***************************************************************************)
\* spawn("docker", args, {shell: true}) in executeDockerCommand, and
\* dockerSpawn(["push", fullImage]) in pushImageToHub
SpawnWith(outcomes) ==
  /\ pc = "spawn"
  /\ \E so \in outcomes :
       LET path == ResolveDockerPath(resolvedDockerPath, fsFiles)
       IN
       /\ resolvedDockerPath' = IF stage = "push" THEN path ELSE resolvedDockerPath
       /\ pathCalls' = IF stage = "push"
                       THEN Append(pathCalls, PathCall(resolvedDockerPath, fsFiles))
                       ELSE pathCalls
       /\ IF so = "throws"
          THEN /\ IF stage = "push"
                  THEN \* the executor throws: the returned promise rejects
                       /\ pc' = "rejected"
                       /\ outcome' = "rejected"
                       /\ pending' = pending
                  ELSE \* the rejection is caught by the caller's try
                       /\ pc' = "settle"
                       /\ outcome' = outcome
                       /\ pending' = Thrown(SpawnThrowMessage)
               /\ UNCHANGED procs
          ELSE /\ procs' = [procs EXCEPT ![stage] =
                              [NoProc EXCEPT
                                 !.state = IF so = "started"
                                              \/ (so = "noEngine" /\ stage # "push")
                                           THEN "running" ELSE "failing",
                                 !.argv = args,
                                 !.received = IF so = "started"
                                              THEN EngineReceives(stage, args, path)
                                              ELSE <<>>,
                                 !.engine = (so # "noEngine")]]
               /\ pc' = "awaiting"
               /\ UNCHANGED <<outcome, pending>>
  /\ resolved' = FALSE
  /\ errorOutput' = ""
  /\ UNCHANGED <<call, stage, fsFiles, tempDockerfilePath, unlinkFailed, args,
                 logs, onOutputLines, channel, results, hostVars,
                 uiVars, engineOutput>>

Spawn == SpawnWith(SpawnOutcomes)

\* the positions of line at which /Step (\d+)\/(\d+)\s*:\s*(.+)/i matches
StepMatchesAt(line, i) ==
  LET n == PrefixLen(From(line, i + 5), Digits)
      afterN == From(line, i + 5 + n)
      m == PrefixLen(From(afterN, 2), Digits)
      afterM == TrimStart(From(afterN, 2 + m))
  IN  /\ ToLowerCase(Slice(line, i, i + 4)) = "step "
      /\ n > 0
      /\ Slice(afterN, 1, 1) = "/"
      /\ m > 0
      /\ Slice(afterM, 1, 1) = ":"
      /\ Len(afterM) > 1

StepMatches(line) == \E i \in 1..Len(line) : StepMatchesAt(line, i)

\* [, current, total, instruction] of the leftmost match; the instruction is
\* what follows the colon and its blanks (one blank, if only blanks follow)
StepMatch(line) ==
  LET i == CHOOSE k \in 1..Len(line) :
             /\ StepMatchesAt(line, k)
             /\ \A j \in 1..(k - 1) : ~StepMatchesAt(line, j)
      n == PrefixLen(From(line, i + 5), Digits)
      afterN == From(line, i + 5 + n)
      m == PrefixLen(From(afterN, 2), Digits)
      afterColon == From(TrimStart(From(afterN, 2 + m)), 2)
  IN  [ current |-> Slice(line, i + 5, i + 4 + n),
        total |-> Slice(afterN, 2, 1 + m),
        instruction |-> IF TrimStart(afterColon) # "" THEN TrimStart(afterColon)
                        ELSE From(afterColon, Len(afterColon)) ]

\* onProgress(instruction, (parseInt(current) / parseInt(total)) * 100): the
\* percentage is kept as the exact quotient of two integers
ProgressEvent(line) ==
  LET sm == StepMatch(line)
  IN  [ stage |-> sm.instruction,
        progress |-> [numerator |-> ParseInt(sm.current) * 100,
                      denominator |-> ParseInt(sm.total)] ]

\* the calls of onProgress the stdout handler makes for the lines of a chunk
RECURSIVE ProgressEvents(_)
ProgressEvents(lines) ==
  IF lines = <<>> THEN <<>>
  ELSE (IF StepMatches(lines[1]) THEN <<ProgressEvent(lines[1])>> ELSE <<>>)
       \o ProgressEvents(Tail(lines))

\* /Successfully built ([a-f0-9]+)/i matches at position i
ImageIdMatchesAt(line, i) ==
  /\ ToLowerCase(Slice(line, i, i + 18)) = "successfully built "
  /\ PrefixLen(From(line, i + 19), HexChars) > 0

\* imageId after a line: group 1 of the leftmost match, or what it was
ImageIdAfter(old, line) ==
  IF \E i \in 1..Len(line) : ImageIdMatchesAt(line, i)
  THEN LET i == CHOOSE k \in 1..Len(line) :
                  /\ ImageIdMatchesAt(line, k)
                  /\ \A j \in 1..(k - 1) : ~ImageIdMatchesAt(line, j)
       IN  Slice(line, i + 19, i + 18 + PrefixLen(From(line, i + 19), HexChars))
  ELSE old

\* /^([a-f0-9]{64})$/i
IsContainerIdLine(line) ==
  Len(line) = 64 /\ PrefixLen(line, HexChars) = 64

\* a handler that keeps the whole matched token
ContainerIdAfter_Whole(old, line) ==
  IF IsContainerIdLine(line) THEN line ELSE old

\* containerId after a line: containerIdMatch[1].substring(0, 12), or what
\* it was
ContainerIdAfter(old, line) ==
  IF IsContainerIdLine(line) THEN Slice(line, 1, 12) ELSE old

\* imageId and containerId after the lines of a chunk
RECURSIVE IdsAfter(_, _)
IdsAfter(ids, lines) ==
  IF lines = <<>> THEN ids
  ELSE IdsAfter([imageId |-> ImageIdAfter(ids.imageId, lines[1]),
                 containerId |-> ContainerIdAfter(ids.containerId, lines[1])],
                Tail(lines))

\* /digest:\s*(sha256:[a-f0-9]+)/i matches at position i
DigestMatchesAt(line, i) ==
  LET rest == TrimStart(From(line, i + 7))
  IN  /\ ToLowerCase(Slice(line, i, i + 6)) = "digest:"
      /\ ToLowerCase(Slice(rest, 1, 7)) = "sha256:"
      /\ PrefixLen(From(rest, 8), HexChars) > 0

DigestMatches(line) == \E i \in 1..Len(line) : DigestMatchesAt(line, i)

\* digestMatch[1]: group 1 of the leftmost match
DigestOf(line) ==
  LET i == CHOOSE k \in 1..Len(line) :
             /\ DigestMatchesAt(line, k)
             /\ \A j \in 1..(k - 1) : ~DigestMatchesAt(line, j)
      rest == TrimStart(From(line, i + 7))
  IN  Slice(rest, 1, 7 + PrefixLen(From(rest, 8), HexChars))

\* a handler that keeps the first digest it saw
DigestAfter_FirstWins(old, line) ==
  IF old = "" /\ DigestMatches(line) THEN DigestOf(line) ELSE old

\* handleLine: digest after a line
DigestAfter(old, line) == IF DigestMatches(line) THEN DigestOf(line) ELSE old

\* digest after the lines of a chunk
RECURSIVE DigestAfterLines(_, _)
DigestAfterLines(old, lines) ==
  IF lines = <<>> THEN old
  ELSE DigestAfterLines(DigestAfter(old, lines[1]), Tail(lines))

\* the stderr handler's isError
IsErrorLine(line) ==
  LET lower == ToLowerCase(line)
  IN  \/ Includes(lower, "error")
      \/ Includes(lower, "failed")
      \/ Includes(lower, "cannot")

\* the lines a 'data' chunk is split into
ChunkLines(s, chunk) ==
  IF s = "push"
  THEN SelectSeq(Split(chunk, "\n"), LAMBDA l : Trim(l) # "")
  ELSE FilterBoolean(Split(chunk, "\n"))

RECURSIVE ErrorText(_)
ErrorText(lines) ==
  IF lines = <<>> THEN ""
  ELSE (IF IsErrorLine(lines[1]) THEN lines[1] \o "\n" ELSE "")
       \o ErrorText(Tail(lines))

RECURSIVE StderrDisplay(_)
StderrDisplay(lines) ==
  IF lines = <<>> THEN <<>>
  ELSE <<IF IsErrorLine(lines[1]) THEN "[stderr] " \o lines[1] ELSE lines[1]>>
       \o StderrDisplay(Tail(lines))

CanEmit ==
  /\ pc = "awaiting"
  /\ procs[stage].state = "running"
  /\ procs[stage].chunks < MaxChunks

\* stdout.on("data")
StdoutData ==
  /\ CanEmit
  /\ procs[stage].engine
  /\ \E chunk \in engineOutput.stdout :
       LET lines == ChunkLines(stage, chunk)
           p == procs[stage]
           ids == IF stage = "push" THEN p ELSE IdsAfter(p, lines)
       IN  /\ logs' = logs \o lines
           /\ channel' = channel \o lines
           /\ onOutputLines' = Deliver(call, onOutputLines, lines)
           /\ procs' = [procs EXCEPT ![stage] =
                 [p EXCEPT !.chunks = @ + 1,
                           !.outText = @ \o chunk,
                           !.outLines = @ \o lines,
                           !.imageId = ids.imageId,
                           !.containerId = ids.containerId,
                           !.digest = IF stage = "push"
                                      THEN DigestAfterLines(@, lines) ELSE @,
                           !.progress = IF stage # "push" /\ call.onProgress
                                        THEN @ \o ProgressEvents(lines)
                                        ELSE @]]
  /\ UNCHANGED <<call, pc, stage, fsFiles, tempDockerfilePath, unlinkFailed,
                 args, resolved, pending, errorOutput, results, outcome,
                 resolvedDockerPath, pathCalls, hostVars,
                 uiVars, engineOutput>>

\* stderr.on("data")
StderrData ==
  /\ CanEmit
  /\ procs[stage].engine \/ procs[stage].errText = ""
  /\ \E chunk \in IF procs[stage].engine THEN engineOutput.stderr
                   ELSE {ShellNotFoundOutput} :
       LET lines == ChunkLines(stage, chunk)
       IN  /\ logs' = logs \o lines
           /\ procs' = [procs EXCEPT ![stage] =
                 [@ EXCEPT !.chunks = @ + 1,
                           !.errText = @ \o chunk,
                           !.errLines = @ \o lines,
                           !.digest = IF stage = "push"
                                      THEN DigestAfterLines(@, lines) ELSE @]]
           /\ channel' = channel \o (IF stage = "push" THEN lines
                                     ELSE StderrDisplay(lines))
           /\ onOutputLines' = Deliver(call, onOutputLines, lines)
           /\ errorOutput' = IF stage = "push" THEN errorOutput
                             ELSE errorOutput \o ErrorText(lines)
  /\ UNCHANGED <<call, pc, stage, fsFiles, tempDockerfilePath, unlinkFailed,
                 args, resolved, pending, results, outcome, resolvedDockerPath, pathCalls, hostVars,
                 uiVars, engineOutput>>

\* a close handler that tests !code instead of code === 0
ExecCloseValue_Falsy(code, errOut) ==
  IF code \in {"0", "null"} THEN [type |-> "value", success |-> TRUE, error |-> ""]
  ELSE [type |-> "value", success |-> FALSE,
        error |-> IF errOut # "" THEN errOut
                  ELSE "Process exited with code " \o code]

\* executeDockerCommand's 'close' handler: the value it resolves with
ExecCloseValue(code, errOut) ==
  IF code = "0" THEN Value(TRUE, "")
  ELSE Value(FALSE, IF errOut # "" THEN errOut
                    ELSE "Process exited with code " \o code)

\* pushImageToHub's 'close' handler: the message it reports
PushCloseMessage(code, image) ==
  IF code = "0" THEN "Successfully pushed " \o image
  ELSE "Push failed with exit code " \o code

\* pushImageToHub's 'close' handler: the value it resolves with
PushCloseValue(code, lg) ==
  IF code = "0" THEN Value(TRUE, "")
  ELSE Value(FALSE, IF Join(lg, "\n") # "" THEN Join(lg, "\n")
                    ELSE "Push failed with exit code " \o code)

\* what the 'close' handler hands to onOutput before it resolves
CloseDelivers(s, code, image) ==
  IF s = "push" THEN <<PushCloseMessage(code, image)>> ELSE <<>>

\* on("close") of a process that was started
ProcClose ==
  /\ pc = "awaiting"
  /\ procs[stage].state = "running"
  /\ \E code \in IF procs[stage].engine THEN ExitCodes ELSE {ShellNotFoundCode} :
       /\ procs' = [procs EXCEPT ![stage].state = "closed", ![stage].code = code]
       /\ channel' = channel \o CloseDelivers(stage, code, call.image)
       /\ onOutputLines' = Deliver(call, onOutputLines,
                                  CloseDelivers(stage, code, call.image))
       /\ pending' = IF stage = "push" THEN PushCloseValue(code, logs)
                     ELSE ExecCloseValue(code, errorOutput)
  /\ resolved' = TRUE
  /\ pc' = "settle"
  /\ UNCHANGED <<call, stage, fsFiles, tempDockerfilePath, unlinkFailed, args,
                 logs, errorOutput, results, outcome, resolvedDockerPath, pathCalls, hostVars,
                 uiVars, engineOutput>>

\* on("error"): the process could not be launched
ProcError ==
  /\ pc = "awaiting"
  /\ procs[stage].state = "failing"
  /\ procs' = [procs EXCEPT ![stage].state = "errored"]
  /\ channel' = IF stage = "push"
                THEN Append(channel, "Failed to start docker push: "
                                     \o LaunchErrorMessage)
                ELSE channel
  /\ pending' = IF stage = "push"
                THEN Value(FALSE, "Failed to start docker push: "
                                  \o LaunchErrorMessage)
                ELSE Value(FALSE, ShellLaunchErrorMessage)
  /\ resolved' = TRUE
  /\ pc' = "settle"
  /\ UNCHANGED <<call, stage, fsFiles, tempDockerfilePath, unlinkFailed, args,
                 logs, errorOutput, onOutputLines, results, outcome,
                 resolvedDockerPath, pathCalls, hostVars,
                 uiVars, engineOutput>>

\* the exit code 'close' carries after a failed launch (the negated errno)
LaunchFailureCode == "-2"

\* on("close") after on("error"): node emits both for a failed launch; the
\* handler runs again, and its resolve() is a no-op on the settled promise
ProcCloseAfterError ==
  /\ pc \in {"returned", "rejected"}
  /\ procs[stage].state = "errored"
  /\ procs' = [procs EXCEPT ![stage].state = "closed",
                            ![stage].code = LaunchFailureCode]
  /\ channel' = channel \o CloseDelivers(stage, LaunchFailureCode, call.image)
  /\ onOutputLines' = Deliver(call, onOutputLines,
                              CloseDelivers(stage, LaunchFailureCode, call.image))
  /\ UNCHANGED <<call, pc, stage, fsFiles, tempDockerfilePath, unlinkFailed,
                 args, resolved, pending, logs, errorOutput, results, outcome,
                 resolvedDockerPath, pathCalls, hostVars,
                 uiVars, engineOutput>>

(***************************************************************************)
(* The awaiting function resumes: the rest of buildDockerImage,            *)
(* runDockerContainer, buildAndRun and pushImageToHub.                     *)
(***************************************************************************)
\* the result value built from what the await produced (try and catch)
ResultOf(p, lg) ==
  [ set |-> TRUE, success |-> p.success, error |-> p.error,
    logs |-> IF p.type = "throw" THEN Append(lg, "Error: " \o p.error) ELSE lg,
    imageId |-> "", containerId |-> "", digest |-> "" ]

\* result.imageId / result.containerId: the close handler hands the
\* identifiers on only when it resolves with success
ResolvedId(p, id) == IF p.type = "value" /\ p.success THEN id ELSE ""

\* the channel lines of buildDockerImage after the await
BuildOutcomeLines(p, o) ==
  IF p.type = "throw" THEN <<"Error: " \o p.error>>
  ELSE IF p.success
  THEN <<"Build successful: " \o o.imageName \o ":" \o o.imageTag>>
  ELSE <<"Build failed">>

\* the channel lines of runDockerContainer after the await
RunOutcomeLines(p) ==
  IF p.type = "throw" THEN <<"Error: " \o p.error>>
  ELSE IF p.success THEN <<"Container started successfully">>
  ELSE <<"Failed to start container">>

\* buildDockerImage returns (finally: cleanup); buildAndRun goes on to run
SettleBuild ==
  /\ pc = "settle"
  /\ stage = "build"
  /\ results' = [results EXCEPT !["build"] =
                   [ResultOf(pending, logs) EXCEPT
                      !.imageId = ResolvedId(pending, procs["build"].imageId)]]
  /\ \E unlinkOk \in BOOLEAN :
       IF tempDockerfilePath # ""
       THEN /\ fsFiles' = CleanupTempDockerfile(fsFiles, tempDockerfilePath, unlinkOk)
            /\ unlinkFailed' = (CleanupUnlinks(fsFiles, tempDockerfilePath)
                                /\ ~unlinkOk)
       ELSE UNCHANGED <<fsFiles, unlinkFailed>>
  /\ IF call.kind = "buildAndRun" /\ pending.success
     THEN /\ stage' = "run"
          /\ args' = RunArgv(call.run)
          /\ channel' = channel \o BuildOutcomeLines(pending, call.build)
                        \o <<"Running Container: " \o call.run.imageName
                               \o ":" \o call.run.imageTag,
                             "Running: docker " \o Join(RunArgv(call.run), " ")>>
          /\ logs' = <<>>
          /\ pc' = "spawn"
          /\ outcome' = outcome
     ELSE /\ channel' = channel \o BuildOutcomeLines(pending, call.build)
          /\ pc' = "returned"
          /\ outcome' = "fulfilled"
          /\ UNCHANGED <<stage, args, logs>>
  /\ pending' = NoPending
  /\ UNCHANGED <<call, tempDockerfilePath, procs, resolved, errorOutput,
                 onOutputLines, resolvedDockerPath, pathCalls, hostVars,
                 uiVars, engineOutput>>

\* runDockerContainer returns
SettleRun ==
  /\ pc = "settle"
  /\ stage = "run"
  /\ results' = [results EXCEPT !["run"] =
                   [ResultOf(pending, logs) EXCEPT
                      !.containerId = ResolvedId(pending, procs["run"].containerId)]]
  /\ channel' = channel \o RunOutcomeLines(pending)
  /\ pc' = "returned"
  /\ outcome' = "fulfilled"
  /\ pending' = NoPending
  /\ UNCHANGED <<call, stage, fsFiles, tempDockerfilePath, unlinkFailed, args,
                 procs, resolved, logs, errorOutput, onOutputLines,
                 resolvedDockerPath, pathCalls, hostVars,
                 uiVars, engineOutput>>

\* pushImageToHub's promise is fulfilled with the value it was resolved with
SettlePush ==
  /\ pc = "settle"
  /\ stage = "push"
  /\ results' = [results EXCEPT !["push"] =
                   [ResultOf(pending, logs) EXCEPT
                      !.digest = ResolvedId(pending, procs["push"].digest)]]
  /\ pc' = "returned"
  /\ outcome' = "fulfilled"
  /\ pending' = NoPending
  /\ UNCHANGED <<call, stage, fsFiles, tempDockerfilePath, unlinkFailed, args,
                 procs, resolved, logs, errorOutput, onOutputLines, channel,
                 resolvedDockerPath, pathCalls, hostVars,
                 uiVars, engineOutput>>

OrchNext ==
  \/ StartBuild
  \/ StartTestBuild
  \/ StartBuildAndRun
  \/ StartRun
  \/ StartPush
  \/ Spawn
  \/ StdoutData
  \/ StderrData
  \/ ProcClose
  \/ ProcError
  \/ ProcCloseAfterError
  \/ SettleBuild
  \/ SettleRun
  \/ SettlePush

\* one call of an orchestration function, from its arguments to its result
SpecOrch == Init /\ [][OrchNext]_vars

(***************************************************************************)
(* Claims about one orchestration call (SpecOrch).                         *)
(***************************************************************************)
\* C1: once buildDockerImage has returned, the temporary build file it wrote
\* for inline build-file text is no longer on disk, for every context path
\* and on every exit path (here even granting that unlink itself never fails)
C1_TempFileGone ==
  (results["build"].set /\ tempDockerfilePath # "" /\ ~unlinkFailed)
    => tempDockerfilePath \notin fsFiles

\* C3: the engine process receives exactly as many arguments as the composed
\* argument vector has elements (plus the executable's own name)
C3_OneArgumentPerValue ==
  \A s \in Stages :
    procs[s].received # <<>>
      => Len(procs[s].received) = Len(procs[s].argv) + 1

\* C5: once the invocation's promise has been resolved, nothing more is handed
\* to the caller's onOutput callback for that invocation
C5_NoDeliveryAfterResult ==
  [][(resolved /\ resolved') => onOutputLines' = onOutputLines]_vars

\* C6: a returned result has success = true exactly when the engine process
\* closed with exit code 0, and a failed result carries a non-empty error
C6_SuccessIffExitZero ==
  \A s \in Stages :
    results[s].set
      => /\ results[s].success <=> (procs[s].state = "closed" /\ procs[s].code = "0")
         /\ ~results[s].success => results[s].error # ""

\* C6 witness: a build-and-run whose build closed with code 0 and whose run
\* was terminated with a null code
C6_Witness ==
  /\ results["build"].set /\ results["build"].success
  /\ results["run"].set /\ ~results["run"].success
  /\ procs["run"].code = "null"

\* C7: the promise returned by an orchestration function is never rejected
C7_NeverRejects == outcome # "rejected"

(***************************************************************************)
(* ensureDockerReady: the readiness guard.                                 *)
(***************************************************************************)
InstallPromptText ==
  "Docker is not installed on your system. DockForge requires Docker to work properly."
NotRunningText ==
  "Docker is installed but not running. Please start Docker Desktop and try again."
DownloadUrl == "https://www.docker.com/products/docker-desktop/"

Notice(kind, text) == [kind |-> kind, text |-> text]

\* ensureDockerReady after `await checkDockerInstalled()`
GuardAfterBinaryProbe_AlwaysDaemon(ok) == "daemonProbe"

GuardAfterBinaryProbe(ok) == IF ok THEN "daemonProbe" ELSE "installPrompt"

\* checkDockerInstalled: dockerExec("docker --version") resolves or rejects
GuardProbeBinaryWith(answers) ==
  /\ guardPc = "binaryProbe"
  /\ \E ok \in answers :
       /\ installed' = IF ok THEN "yes" ELSE "no"
       /\ guardPc' = GuardAfterBinaryProbe(ok)
       /\ messages' = IF ok THEN messages
                      ELSE Append(messages, Notice("modal", InstallPromptText))
  /\ probes' = Append(probes, "docker --version")
  /\ UNCHANGED <<orchVars, uiAction, uiPc, payload, running, guardReturn,
                 treeVars, pushVars, posted, login, conc, panel>>

GuardProbeBinary == GuardProbeBinaryWith(BOOLEAN)

\* promptInstallDocker: the user answers the modal; ensureDockerReady
\* returns false
GuardPromptAnswer ==
  /\ guardPc = "installPrompt"
  /\ \E choice \in {"Download Docker", "undefined"} :
       messages' = IF choice = "Download Docker"
                   THEN Append(messages, Notice("openExternal", DownloadUrl))
                   ELSE messages
  /\ guardReturn' = "false"
  /\ guardPc' = "done"
  /\ UNCHANGED <<orchVars, uiAction, uiPc, payload, installed, running, probes,
                 treeVars, pushVars, posted, login, conc, panel>>

\* checkDockerRunning: dockerExec("docker info") resolves or rejects;
\* ensureDockerReady returns
GuardProbeDaemonWith(answers) ==
  /\ guardPc = "daemonProbe"
  /\ \E ok \in answers :
       /\ running' = IF ok THEN "yes" ELSE "no"
       /\ guardReturn' = IF ok THEN "true" ELSE "false"
       /\ messages' = IF ok THEN messages
                      ELSE Append(messages, Notice("error", NotRunningText))
  /\ probes' = Append(probes, "docker info")
  /\ guardPc' = "done"
  /\ UNCHANGED <<orchVars, uiAction, uiPc, payload, installed, treeVars,
                 pushVars, posted, login, conc, panel>>

GuardProbeDaemon == GuardProbeDaemonWith(BOOLEAN)

\* the state of the guard's state machine, read off what it has learnt
GuardState ==
  IF installed = "unknown" THEN "NOT_CHECKED"
  ELSE IF installed = "no" THEN "NOT_INSTALLED"
  ELSE IF running = "unknown" THEN "INSTALLED"
  ELSE IF running = "no" THEN "NOT_RUNNING"
  ELSE "READY"

(***************************************************************************)
(* The builder panel's message listener.                                   *)
(***************************************************************************)
PanelCommands == {"TEST_BUILD", "BUILD_IMAGE", "RUN_CONTAINER", "BUILD_AND_RUN"}

\* message.payload and workspaceFolders[0].uri.fsPath ("" is no folder)
PanelPayloads ==
  { [ imageName |-> n, imageTag |-> "", dockerfileText |-> t, workspace |-> w,
      containerName |-> IF full THEN "web" ELSE "",
      portMapping |-> IF full THEN "8080:80, 3000:3000" ELSE "",
      envVariables |-> IF full THEN "A=1, B =x y,A=2,C" ELSE "",
      noCache |-> full, pull |-> FALSE,
      target |-> IF full THEN "dev" ELSE "", platform |-> "",
      buildArgs |-> <<>> ] :
    n \in {"", "app"}, t \in {"", " ", "FROM a"}, w \in {"", "/my ws"},
    full \in BOOLEAN }

\* a || b on strings
OrElse(a, b) == IF a # "" THEN a ELSE b

\* _resolveDockerfileContent
ResolveDockerfileContent(dockerfileText) ==
  IF Len(Trim(dockerfileText)) > 0 THEN dockerfileText ELSE ""

\* .map(p => p.trim())
RECURSIVE MapTrim(_)
MapTrim(seq) ==
  IF seq = <<>> THEN <<>> ELSE <<Trim(seq[1])>> \o MapTrim(Tail(seq))

\* portMapping.split(",").map(trim).filter(Boolean), or undefined
ParsePorts(portMapping) ==
  IF portMapping = "" THEN <<>>
  ELSE FilterBoolean(MapTrim(Split(portMapping, ",")))

\* envVars[key] = value: a key set again keeps its place, with the new value
SetKey(pairs, k, v) ==
  IF \E i \in 1..Len(pairs) : pairs[i][1] = k
  THEN [i \in 1..Len(pairs) |-> IF pairs[i][1] = k THEN <<k, v>> ELSE pairs[i]]
  ELSE Append(pairs, <<k, v>>)

\* the forEach body: [key, value] = e.trim().split("=")
RECURSIVE ParseEnvEntries(_, _)
ParseEnvEntries(entries, pairs) ==
  IF entries = <<>> THEN pairs
  ELSE LET parts == Split(Trim(entries[1]), "=")
       IN  ParseEnvEntries(Tail(entries),
             IF parts[1] # "" /\ Len(parts) >= 2
             THEN SetKey(pairs, Trim(parts[1]), Trim(parts[2]))
             ELSE pairs)

\* envVariables.split(",").forEach(...), or nothing
ParseEnv(envVariables) ==
  IF envVariables = "" THEN <<>>
  ELSE ParseEnvEntries(Split(envVariables, ","), <<>>)

\* TEST_BUILD: buildOptions
PanelTestBuildOptions(pl) ==
  [ imageName |-> OrElse(pl.imageName, "dockforge-test"),
    imageTag |-> OrElse(pl.imageTag, "latest"),
    dockerfile |-> "", dockerfileContent |-> pl.dockerfileText,
    contextPath |-> pl.workspace, noCache |-> TRUE, pull |-> FALSE,
    target |-> "", platform |-> "", buildArgs |-> <<>> ]

\* BUILD_IMAGE: buildOptions
PanelBuildOptions(pl) ==
  [ imageName |-> pl.imageName, imageTag |-> OrElse(pl.imageTag, "latest"),
    dockerfile |-> "",
    dockerfileContent |-> ResolveDockerfileContent(pl.dockerfileText),
    contextPath |-> pl.workspace, noCache |-> pl.noCache, pull |-> pl.pull,
    target |-> pl.target, platform |-> pl.platform,
    buildArgs |-> pl.buildArgs ]

\* BUILD_AND_RUN: the first argument of buildAndRun
PanelBuildAndRunOptions(pl) ==
  [ imageName |-> pl.imageName, imageTag |-> OrElse(pl.imageTag, "latest"),
    dockerfile |-> "",
    dockerfileContent |-> ResolveDockerfileContent(pl.dockerfileText),
    contextPath |-> pl.workspace, noCache |-> FALSE, pull |-> FALSE,
    target |-> "", platform |-> "", buildArgs |-> <<>> ]

\* RUN_CONTAINER: runOptions (detached = true, remove = false by default);
\* BUILD_AND_RUN: the second argument of buildAndRun
PanelRunOptions(pl) ==
  [ imageName |-> pl.imageName, imageTag |-> OrElse(pl.imageTag, "latest"),
    containerName |-> pl.containerName, detached |-> TRUE, remove |-> FALSE,
    interactive |-> FALSE, tty |-> FALSE,
    portMappings |-> ParsePorts(pl.portMapping),
    envVariables |-> ParseEnv(pl.envVariables),
    volumes |-> <<>>, workingDir |-> "", network |-> "" ]

\* the handler's checks after the guard, in its order; "" when all pass
PanelValidation(cmd, pl) ==
  IF cmd = "TEST_BUILD" THEN
    IF pl.imageName = "" THEN "Image name is required for test build"
    ELSE IF pl.dockerfileText = "" THEN "No Dockerfile content to build"
    ELSE IF pl.workspace = ""
    THEN "No workspace folder open. Please open a folder first."
    ELSE ""
  ELSE IF pl.imageName = "" THEN "Image name is required"
  ELSE IF cmd = "RUN_CONTAINER" THEN ""
  ELSE IF pl.workspace = "" THEN
    IF cmd = "BUILD_IMAGE"
    THEN "No workspace folder open. Please open a folder first."
    ELSE "No workspace folder open"
  ELSE IF Trim(ResolveDockerfileContent(pl.dockerfileText)) = ""
  THEN "No Dockerfile content to build"
  ELSE ""


\* a webview message arrives; the handler's first step is the guard
PanelMessageFrom(commands, payloads) ==
  /\ uiPc = "idle"
  /\ pc = "idle"
  /\ \E cmd \in commands, pl \in payloads :
       /\ uiAction' = cmd
       /\ payload' = pl
  /\ uiPc' = "guard"
  /\ guardPc' = "binaryProbe"
  /\ UNCHANGED <<orchVars, installed, running, guardReturn, probes, messages,
                 treeVars, pushVars, posted, login, conc, panel>>

PanelMessage == PanelMessageFrom(PanelCommands, PanelPayloads)

\* the handler after `await ensureDockerReady()`: return, or validate the
\* payload and call the orchestration function
PanelAfterGuard ==
  /\ uiPc = "guard"
  /\ guardPc = "done"
  /\ uiAction \in PanelCommands
  /\ LET err == PanelValidation(uiAction, payload)
     IN
     IF guardReturn # "true"
     THEN /\ uiPc' = "done"
          /\ UNCHANGED <<orchVars, messages>>
     ELSE IF err # ""
     THEN /\ uiPc' = "done"
          /\ messages' = Append(messages, Notice("error", err))
          /\ UNCHANGED orchVars
     ELSE
       /\ uiPc' = "operating"
       /\ messages' = messages
       /\ UNCHANGED <<unlinkFailed, procs, resolved, logs, errorOutput,
                      onOutputLines, results, outcome, resolvedDockerPath, pathCalls, hostVars,
                      engineOutput>>
       /\ IF uiAction = "RUN_CONTAINER"
          THEN /\ call' = [NoCall EXCEPT !.kind = "run",
                                         !.run = PanelRunOptions(payload),
                                         !.onOutput = TRUE]
               /\ BeginRun(PanelRunOptions(payload))
               /\ UNCHANGED <<fsFiles, tempDockerfilePath>>
          ELSE \E now \in Timestamps, tagNow \in Timestamps, writeOk \in BOOLEAN :
                 LET o == IF uiAction = "TEST_BUILD"
                          THEN TestBuildOptions(PanelTestBuildOptions(payload),
                                                tagNow)
                          ELSE IF uiAction = "BUILD_IMAGE"
                          THEN PanelBuildOptions(payload)
                          ELSE PanelBuildAndRunOptions(payload)
                 IN
                 /\ (uiAction # "TEST_BUILD" => tagNow = now)
                 /\ call' = IF uiAction = "TEST_BUILD"
                            THEN [NoCall EXCEPT !.kind = "testBuild", !.build = o,
                                                !.given = PanelTestBuildOptions(payload),
                                                !.onOutput = TRUE]
                            ELSE IF uiAction = "BUILD_IMAGE"
                            THEN [NoCall EXCEPT !.kind = "build", !.build = o,
                                                !.onOutput = TRUE,
                                                !.onProgress = TRUE]
                            ELSE [NoCall EXCEPT
                                    !.kind = "buildAndRun", !.build = o,
                                    !.run = BuildAndRunRunOptions(
                                              o, PanelRunOptions(payload)),
                                    !.onOutput = TRUE]
                 /\ BeginBuild(o, now, writeOk)
  /\ UNCHANGED <<uiAction, payload, guardVars, treeVars, pushVars, posted,
                 login, conc, panel>>

\* the message the handler posts when the orchestration function returned
\* (try) or rejected (catch)
PanelCompletion(cmd, res, how) ==
  IF cmd = "RUN_CONTAINER"
  THEN [command |-> "runComplete",
        success |-> how = "fulfilled" /\ res["run"].success,
        error |-> res["run"].error]
  ELSE IF cmd = "BUILD_AND_RUN"
  THEN [command |-> "buildRunComplete",
        buildSuccess |-> how = "fulfilled" /\ res["build"].success,
        runSuccess |-> how = "fulfilled" /\ res["run"].set /\ res["run"].success,
        error |-> OrElse(res["build"].error, res["run"].error)]
  ELSE [command |-> "buildComplete",
        success |-> how = "fulfilled" /\ res["build"].success,
        error |-> res["build"].error]

\* the handler after `await testBuild / buildDockerImage / ...`
PanelComplete ==
  /\ uiPc = "operating"
  /\ uiAction \in PanelCommands
  /\ pc \in {"returned", "rejected"}
  /\ posted' = Append(posted, PanelCompletion(uiAction, results, outcome))
  /\ uiPc' = "done"
  /\ UNCHANGED <<orchVars, uiAction, payload, guardVars, messages, treeVars,
                 pushVars, login, conc, panel>>


(***************************************************************************)
(* The images tree: deleteImage, stopContainer, runContainer.              *)
(***************************************************************************)
TreeImageIds == {"abc123"}
TreeContainerIds == {"def456"}
TreeImages == {[repository |-> "app", tag |-> "latest"]}

\* \d+
IsDigits(s) == Len(s) > 0 /\ \A i \in 1..Len(s) : SubSeq(s, i, i) \in Digits

\* \d+:\d+
IsPortPair(s) ==
  LET parts == Split(s, ":")
  IN  Len(parts) = 2 /\ IsDigits(parts[1]) /\ IsDigits(parts[2])

\* validateInput of the port box: empty, or the trimmed value matches
\* /^\d+:\d+(,\s*\d+:\d+)*$/
ValidPortInput(value) ==
  \/ value = ""
  \/ LET parts == Split(Trim(value), ",")
     IN  /\ IsPortPair(parts[1])
         /\ \A i \in 2..Len(parts) : IsPortPair(TrimStart(parts[i]))

\* what the user can leave the three input boxes with
TreeNameInputs == {"", "web"}
TreePortInputs == {v \in {"", "8080:80, 3000:3000", "80"} : ValidPortInput(v)}
TreeEnvInputs == {"", "A=1, B=x y"}
TreeRunModes == {"detached", "attached", "terminal"}

\* the prompt at which the user cancels, if any
TreeCancelPoints == {"no", "containerName", "portMapping", "envVariables", "runMode"}

\* portMapping.split(",").forEach(port => ... port.trim())
TreeListFlags(flag, input) ==
  IF input = "" THEN <<>> ELSE ListFlags(flag, MapTrim(Split(input, ",")))

\* the options between the mode's fixed part and the image reference
TreeRunOptionWords(containerName, portMapping, envVariables) ==
  (IF containerName # "" THEN <<"--name", containerName>> ELSE <<>>)
  \o TreeListFlags("-p", portMapping)
  \o TreeListFlags("-e", envVariables)

\* terminalCommand of the terminal and attached modes
TerminalCommand(mode, containerName, portMapping, envVariables, image) ==
  Join(<<IF mode = "terminal" THEN "docker run -it --rm" ELSE "docker run --rm">>
       \o TreeRunOptionWords(containerName, portMapping, envVariables)
       \o <<image.repository \o ":" \o image.tag>>, " ")

\* args of the detached mode
TreeDetachedArgv(containerName, portMapping, envVariables, image) ==
  <<"run", "-d", "--rm">>
  \o TreeRunOptionWords(containerName, portMapping, envVariables)
  \o <<image.repository \o ":" \o image.tag>>

\* one command run through exec: the vector the code has in mind, the
\* command line it hands to the shell, and what the engine receives
ExecRecord(op, argv) ==
  [op |-> op, argv |-> argv, command |-> "docker " \o Join(argv, " "),
   received |-> ExecShell("docker " \o Join(argv, " "))]

\* runContainer: the modes that run the command in a terminal
RunsInTerminal_Never(mode) == FALSE

RunsInTerminal(mode) == mode \in {"terminal", "attached"}

\* deleteImage(imageId): the modal, then `docker rmi` if confirmed
TreeDeleteImage ==
  /\ uiPc = "idle"
  /\ pc = "idle"
  /\ uiAction' = "deleteImage"
  /\ \E imageId \in TreeImageIds, choice \in {"Delete", "undefined"} :
       /\ messages' = Append(messages,
                             Notice("modal", "Delete image " \o imageId \o "?"))
       /\ IF choice = "Delete"
          THEN /\ execs' = Append(execs, ExecRecord("rmi", <<"rmi", imageId>>))
               /\ uiPc' = "awaitExec"
          ELSE /\ execs' = execs
               /\ uiPc' = "done"
  /\ UNCHANGED <<orchVars, payload, guardVars, terminals, runMode, pushVars,
                 posted, login, conc, panel>>

\* stopContainer(containerId): `docker stop`
TreeStopContainer ==
  /\ uiPc = "idle"
  /\ pc = "idle"
  /\ uiAction' = "stopContainer"
  /\ \E containerId \in TreeContainerIds :
       execs' = Append(execs, ExecRecord("stop", <<"stop", containerId>>))
  /\ uiPc' = "awaitExec"
  /\ UNCHANGED <<orchVars, payload, guardVars, messages, terminals, runMode,
                 pushVars, posted, login, conc, panel>>

\* runContainer(image): the three input boxes, the mode pick, and the mode's
\* branch up to its return or its await
TreeRunContainer ==
  /\ uiPc = "idle"
  /\ pc = "idle"
  /\ uiAction' = "runImage"
  /\ \E image \in TreeImages, containerName \in TreeNameInputs,
        portMapping \in TreePortInputs, envVariables \in TreeEnvInputs,
        mode \in TreeRunModes, cancel \in TreeCancelPoints :
       LET ref == image.repository \o ":" \o image.tag
       IN
       IF cancel # "no"
       THEN /\ uiPc' = "done"
            /\ UNCHANGED <<messages, execs, terminals, runMode>>
       ELSE IF RunsInTerminal(mode)
       THEN /\ runMode' = mode
            /\ terminals' = Append(terminals,
                 [name |-> ref,
                  text |-> TerminalCommand(mode, containerName, portMapping,
                                           envVariables, image)])
            /\ messages' = Append(messages,
                 Notice("info", "Running " \o ref \o
                        (IF mode = "terminal" THEN " in terminal"
                         ELSE " in attached mode")))
            /\ uiPc' = "done"
            /\ execs' = execs
       ELSE /\ runMode' = mode
            /\ execs' = Append(execs,
                 ExecRecord("run", TreeDetachedArgv(containerName, portMapping,
                                                    envVariables, image)))
            /\ uiPc' = "awaitExec"
            /\ UNCHANGED <<messages, terminals>>
  /\ UNCHANGED <<orchVars, payload, guardVars, pushVars, posted, login, conc, panel>>

\* the notification after `await execAsync(...)`, in try or in catch
TreeExecNotice(action, ok) ==
  IF action = "deleteImage"
  THEN IF ok THEN Notice("info", "Image deleted")
       ELSE Notice("error", "Failed to delete image")
  ELSE IF action = "stopContainer"
  THEN IF ok THEN Notice("info", "Container stopped")
       ELSE Notice("error", "Failed to stop container")
  ELSE IF ok THEN Notice("info", "Container started")
       ELSE Notice("error", "Failed to run container")

\* the exec of a tree operation resolves or rejects; the operation returns
TreeExecDone ==
  /\ uiPc = "awaitExec"
  /\ uiAction \in {"deleteImage", "stopContainer", "runImage"}
  /\ \E ok \in BOOLEAN :
       messages' = Append(messages, TreeExecNotice(uiAction, ok))
  /\ uiPc' = "done"
  /\ UNCHANGED <<orchVars, uiAction, payload, guardVars, treeVars, pushVars,
                 posted, login, conc, panel>>


(***************************************************************************)
(* interactivePush and interactiveTag.                                     *)
(***************************************************************************)
\* hasNamespace
HasNamespace_WholeName(imageName) == Includes(imageName, "/")

HasNamespace(imageName) == Includes(Split(imageName, ":")[1], "/")

NameStartChars ==
  {"a", "b", "c", "d", "e", "f", "g", "h", "i", "j", "k", "l", "m", "n", "o",
   "p", "q", "r", "s", "t", "u", "v", "w", "x", "y", "z"} \cup Digits
NameChars == NameStartChars \cup {".", "_", "/", "-"}

\* validateInput of the name box: the trimmed value is not empty and matches
\* /^[a-z0-9][a-z0-9._/-]*$/
ValidImageName(v) ==
  LET t == Trim(v)
  IN  /\ Len(t) > 0
      /\ SubSeq(t, 1, 1) \in NameStartChars
      /\ \A i \in 1..Len(t) : SubSeq(t, i, i) \in NameChars

\* the images the user asks to push
PushNames == {"app", "u/app", "r:5/app"}
PushTags == {"latest"}

\* what the user can accept the two boxes of interactiveTag with
TagNameInputs ==
  {v \in {"", "app", "app2", " u/app ", "U/app", "r:5/app"} : ValidImageName(v)}
TagTagInputs == {"", "latest", "v1"}

NamespaceWarning(fullImage) ==
  fullImage \o " cannot be pushed to Docker Hub because it has no username namespace."

\* an entry that looks for the namespace in the tag
PushEntry_ChecksTag(shown, imageName, imageTag) ==
  LET fullImage == imageName \o ":" \o imageTag
  IN  IF ~HasNamespace(imageTag)
      THEN /\ messages' = Append(shown,
                                 Notice("modal", NamespaceWarning(fullImage)))
           /\ uiPc' = "pushWarn"
      ELSE /\ messages' = Append(shown,
                 Notice("modal", "Push " \o fullImage \o " to Docker Hub?"))
           /\ uiPc' = "pushConfirm"

\* interactivePush(imageName, imageTag) up to its first await: the
\* namespace warning or the confirmation, after the messages shown so far
PushEntry(shown, imageName, imageTag) ==
  LET fullImage == imageName \o ":" \o imageTag
  IN  IF ~HasNamespace(imageName)
      THEN /\ messages' = Append(shown,
                                 Notice("modal", NamespaceWarning(fullImage)))
           /\ uiPc' = "pushWarn"
      ELSE /\ messages' = Append(shown,
                 Notice("modal", "Push " \o fullImage \o " to Docker Hub?"))
           /\ uiPc' = "pushConfirm"

\* the user asks to push an image
PushCommand ==
  /\ uiPc = "idle"
  /\ pc = "idle"
  /\ uiAction' = "pushImage"
  /\ \E n \in PushNames, t \in PushTags :
       /\ pushName' = n
       /\ pushTag' = t
       /\ pushOrig' = n \o ":" \o t
       /\ PushEntry(messages, n, t)
  /\ UNCHANGED <<orchVars, payload, guardVars, treeVars, pushDepth, pushReturn,
                 tagInput, posted, login, conc, panel>>

\* the answer to the namespace warning
PushWarnAnswer ==
  /\ uiPc = "pushWarn"
  /\ \E action \in {"Tag Image Now", "undefined"} :
       IF action = "Tag Image Now"
       THEN /\ uiPc' = "tagName"
            /\ pushReturn' = pushReturn
       ELSE /\ uiPc' = "done"
            /\ pushReturn' = "undefined"
  /\ UNCHANGED <<orchVars, uiAction, payload, guardVars, messages, treeVars,
                 pushName, pushTag, pushOrig, pushDepth, tagInput, posted,
                 login, conc, panel>>

\* interactiveTag: the name box is accepted or dismissed
TagNameInput ==
  /\ uiPc = "tagName"
  /\ \E dismissed \in BOOLEAN, v \in TagNameInputs :
       IF dismissed
       THEN /\ uiPc' = "done"
            /\ pushReturn' = "undefined"
            /\ tagInput' = tagInput
       ELSE /\ uiPc' = "tagTag"
            /\ pushReturn' = pushReturn
            /\ tagInput' = [tagInput EXCEPT !.newName = v]
  /\ UNCHANGED <<orchVars, uiAction, payload, guardVars, messages, treeVars,
                 pushName, pushTag, pushOrig, pushDepth, posted, login, conc, panel>>

\* interactiveTag: the tag box is accepted or dismissed; source and target
\* are compared and tagImage is called
TagTagInput ==
  /\ uiPc = "tagTag"
  /\ \E dismissed \in BOOLEAN, v \in TagTagInputs :
       LET tag == OrElse(Trim(v), "latest")
           source == pushName \o ":" \o pushTag
           target == Trim(tagInput.newName) \o ":" \o tag
       IN
       IF dismissed
       THEN /\ uiPc' = "done"
            /\ pushReturn' = "undefined"
            /\ UNCHANGED <<tagInput, messages, execs>>
       ELSE IF source = target
       THEN /\ uiPc' = "done"
            /\ pushReturn' = "undefined"
            /\ messages' = Append(messages,
                 Notice("info", "Image already has that name and tag."))
            /\ UNCHANGED <<tagInput, execs>>
       ELSE /\ uiPc' = "tagExec"
            /\ pushReturn' = pushReturn
            /\ tagInput' = [tagInput EXCEPT !.source = source,
                                            !.target = target, !.tag = tag]
            /\ execs' = Append(execs, ExecRecord("tag", <<"tag", source, target>>))
            /\ messages' = messages
  /\ UNCHANGED <<orchVars, uiAction, payload, guardVars, terminals, runMode,
                 pushName, pushTag, pushOrig, pushDepth, posted, login, conc, panel>>

\* tagImage resolves or rejects; interactiveTag returns; interactivePush
\* checks the new name again and calls itself
TagExecDone ==
  /\ uiPc = "tagExec"
  /\ \E ok \in BOOLEAN :
       LET repository == Trim(tagInput.newName)
           tagged == Append(messages,
                       Notice("info", "Tagged " \o tagInput.source
                                      \o " -> " \o tagInput.target))
       IN
       IF ~ok
       THEN /\ messages' = Append(messages, Notice("error", "Failed to tag image"))
            /\ uiPc' = "done"
            /\ pushReturn' = "undefined"
            /\ UNCHANGED <<pushName, pushTag, pushDepth>>
       ELSE IF ~HasNamespace(repository)
       THEN /\ messages' = Append(tagged,
                 Notice("warning", "Image still has no namespace. Push cancelled."))
            /\ uiPc' = "done"
            /\ pushReturn' = "undefined"
            /\ UNCHANGED <<pushName, pushTag, pushDepth>>
       ELSE /\ pushName' = repository
            /\ pushTag' = tagInput.tag
            /\ pushDepth' = pushDepth + 1
            /\ pushReturn' = pushReturn
            /\ PushEntry(tagged, repository, tagInput.tag)
  /\ UNCHANGED <<orchVars, uiAction, payload, guardVars, treeVars, pushOrig,
                 tagInput, posted, login, conc, panel>>

\* the answer to the confirmation; pushImageToHub(fullImage) is called
\* without an output callback
PushConfirmAnswer ==
  /\ uiPc = "pushConfirm"
  /\ \E confirm \in {"Push", "undefined"} :
       LET fullImage == pushName \o ":" \o pushTag
       IN
       IF confirm # "Push"
       THEN /\ uiPc' = "done"
            /\ pushReturn' = "undefined"
            /\ UNCHANGED orchVars
       ELSE /\ uiPc' = "pushing"
            /\ pushReturn' = pushReturn
            /\ call' = [NoCall EXCEPT !.kind = "push", !.image = fullImage]
            /\ args' = PushArgv(fullImage)
            /\ channel' = channel \o <<"Pushing " \o fullImage>>
            /\ stage' = "push"
            /\ pending' = NoPending
            /\ pc' = "spawn"
            /\ UNCHANGED <<fsFiles, tempDockerfilePath, unlinkFailed, procs,
                           resolved, logs, errorOutput, onOutputLines, results,
                           outcome, resolvedDockerPath, pathCalls, hostVars, engineOutput>>
  /\ UNCHANGED <<uiAction, payload, guardVars, messages, treeVars, pushName,
                 pushTag, pushOrig, pushDepth, tagInput, posted, login, conc, panel>>

\* https://hub.docker.com/r/${namespace}/${repo}
HubUrl(imageName) ==
  LET parts == Split(imageName, "/")
  IN  "https://hub.docker.com/r/" \o parts[1] \o "/" \o Join(Tail(parts), "/")

\* interactivePush after `await withProgress(... pushImageToHub ...)`
PushFinished ==
  /\ uiPc = "pushing"
  /\ pc \in {"returned", "rejected"}
  /\ \E view \in BOOLEAN :
       LET fullImage == pushName \o ":" \o pushTag
           pushed == Append(messages,
                            Notice("info", "Successfully pushed " \o fullImage))
       IN
       IF pc = "rejected"
       THEN /\ pushReturn' = "rejected"
            /\ messages' = messages
       ELSE /\ pushReturn' = "result"
            /\ messages' =
                 IF ~results["push"].success
                 THEN Append(messages,
                        Notice("error", "Push failed: " \o results["push"].error))
                 ELSE IF view
                 THEN Append(pushed, Notice("openExternal", HubUrl(pushName)))
                 ELSE pushed
  /\ uiPc' = "done"
  /\ UNCHANGED <<orchVars, uiAction, payload, guardVars, treeVars, pushName,
                 pushTag, pushOrig, pushDepth, tagInput, posted, login, conc, panel>>

UINext ==
  \/ PanelMessage
  \/ GuardProbeBinary
  \/ GuardPromptAnswer
  \/ GuardProbeDaemon
  \/ PanelAfterGuard
  \/ PanelComplete
  \/ TreeDeleteImage
  \/ TreeStopContainer
  \/ TreeRunContainer
  \/ TreeExecDone
  \/ PushCommand
  \/ PushWarnAnswer
  \/ TagNameInput
  \/ TagTagInput
  \/ TagExecDone
  \/ PushConfirmAnswer
  \/ PushFinished
  \/ Spawn
  \/ StdoutData
  \/ StderrData
  \/ ProcClose
  \/ ProcError
  \/ ProcCloseAfterError
  \/ SettleBuild
  \/ SettleRun
  \/ SettlePush

\* one user action, from the command or webview message to the handler's end
SpecUI == Init /\ [][UINext]_vars


(***************************************************************************)
(* Claims about one user action (SpecUI).                                  *)
(***************************************************************************)
\* C2: the push subcommand is only ever invoked on a reference that has a
\* "/" before its first ":", so never on the un-namespaced reference the
\* user asked to push; and when the user asked to push an un-namespaced
\* reference and no re-tag to a namespaced name was completed, the call has
\* ended as a cancellation (it returned undefined) with no push call made,
\* no push process started and nothing written to the output channel.
C2_NoPushWithoutNamespace ==
  LET Namespaced(ref) == Includes(Split(ref, ":")[1], "/")
  IN  uiAction = "pushImage" =>
        /\ (call.kind # "none" \/ channel # <<>> \/ procs["push"] # NoProc)
             => /\ call.kind = "push"
                /\ Namespaced(call.image)
                /\ channel[1] = "Pushing " \o call.image
        /\ (uiPc = "done" /\ ~Namespaced(pushOrig) /\ pushDepth = 0)
             => /\ pushReturn = "undefined"
                /\ call.kind = "none"
                /\ procs["push"] = NoProc
                /\ channel = <<>>

\* a re-tag to a name without a namespace was carried out and the push of
\* app:latest ended as a cancellation
C2_Witness ==
  /\ uiAction = "pushImage"
  /\ uiPc = "done"
  /\ pushOrig = "app:latest"
  /\ tagInput.target = "app2:latest"
  /\ Len(execs) = 1
  /\ pushReturn = "undefined"

\* C4: an engine operation that changes something (an orchestration call, a
\* command run through exec, a command sent to a terminal) has only been
\* started when ensureDockerReady returned true in this user action.
C4_GuardBeforeMutation ==
  (call.kind # "none" \/ execs # <<>> \/ terminals # <<>>)
    => guardReturn = "true"

\* C8: the guard issues the binary probe and then, only after it succeeded,
\* the daemon probe; it returns true exactly when both succeeded; the
\* install prompt is shown exactly in NOT_INSTALLED and the start-the-service
\* message exactly in NOT_RUNNING; and a guard that has returned is in
\* NOT_INSTALLED, NOT_RUNNING or READY, false in the first two and true in
\* the third.
C8_GuardStateMachine ==
  LET shown(text) == \E i \in 1..Len(messages) : messages[i].text = text
  IN  /\ probes \in {<<>>, <<"docker --version">>,
                     <<"docker --version", "docker info">>}
      /\ (GuardState = "NOT_CHECKED") <=> (probes = <<>>)
      /\ Len(probes) = 2 <=> GuardState \in {"NOT_RUNNING", "READY"}
      /\ guardReturn = "true" <=> GuardState = "READY"
      /\ guardReturn = "false" => GuardState \in {"NOT_INSTALLED", "NOT_RUNNING"}
      /\ shown(InstallPromptText) <=> GuardState = "NOT_INSTALLED"
      /\ shown(NotRunningText) <=> GuardState = "NOT_RUNNING"
      /\ guardPc = "done"
           => /\ GuardState \in {"NOT_INSTALLED", "NOT_RUNNING", "READY"}
              /\ guardReturn # "none"

\* the guard returned false after a failed daemon probe
C8_Witness ==
  /\ guardPc = "done"
  /\ GuardState = "NOT_RUNNING"
  /\ guardReturn = "false"
  /\ Len(probes) = 2

\* C10: a run from the images tree that started anything picked one of the
\* three modes and started exactly one thing; in terminal mode that is one
\* terminal that was sent the `docker run -it` command, no command was run
\* through exec, no managed process exists, and runContainer has returned.
C10_RunModes ==
  uiAction = "runImage" =>
    /\ runMode \in TreeRunModes \cup {"none"}
    /\ (runMode = "none") <=> (execs = <<>> /\ terminals = <<>>)
    /\ Len(execs) + Len(terminals) <= 1
    /\ call.kind = "none" /\ \A s \in Stages : procs[s] = NoProc
    /\ runMode = "terminal"
         => /\ execs = <<>>
            /\ Len(terminals) = 1
            /\ SubSeq(terminals[1].text, 1, 14) = "docker run -it"
            /\ uiPc = "done"
    /\ runMode = "detached" => terminals = <<>>

\* the terminal mode was picked with a name, ports and variables
C10_Witness ==
  /\ uiAction = "runImage"
  /\ runMode = "terminal"
  /\ terminals # <<>>
  /\ terminals[1].text
       = "docker run -it --rm --name web -p 8080:80 -p 3000:3000 -e A=1 -e B=x y app:latest"


(***************************************************************************)
(* DockerHubAuthManager.login, run twice side by side: the same username    *)
(* and the same reply of the engine, each run with its own token.          *)
(***************************************************************************)
LoginUsernames == {"bob", "al ice"}
LoginTokens == {"", "s3cret", "hunter2"}

\* what exec's callback gets: no error; an error with the engine's stderr;
\* an error without stderr (the 30 s timeout killed the child)
EngineReplies ==
  { [error |-> FALSE, stderr |-> ""],
    [error |-> TRUE, stderr |-> "Error response from daemon: unauthorized"],
    [error |-> TRUE, stderr |-> ""] }

LoginInit ==
  /\ OrchInit
  /\ UIBase
  /\ \E u \in LoginUsernames, t1 \in LoginTokens, t2 \in LoginTokens,
        r \in EngineReplies :
       login = [runs |-> [i \in {1, 2} |->
                            [NoLoginRun EXCEPT !.username = u,
                                               !.token = IF i = 1 THEN t1 ELSE t2]],
                reply |-> r, secrets |-> <<>>]

\* the command line login hands to exec
LoginCommand_PasswordFlag(username, token) ==
  "docker login -u " \o username \o " -p " \o token

LoginCommand(username, token) ==
  "docker login -u " \o username \o " --password-stdin"

\* error.message of a failed exec
ExecErrorMessage(command, stderr) == "Command failed: " \o command \o "\n" \o stderr

\* login(username, token): exec is called and the token is written to the
\* child's standard input
LoginExec(i) ==
  /\ login.runs[i].pc = "idle"
  /\ LET r == login.runs[i]
         cmd == LoginCommand(r.username, r.token)
     IN  login' = [login EXCEPT !.runs[i] =
                     [r EXCEPT !.pc = "awaiting", !.commandLine = cmd,
                               !.received = ExecShell(cmd),
                               !.stdin = r.token]]
  /\ UNCHANGED <<orchVars, uiAction, uiPc, payload, guardVars, messages,
                 treeVars, pushVars, posted, conc, panel>>

\* exec's callback runs; login stores the credentials and returns, or
\* returns the error text
LoginCallback(i) ==
  /\ login.runs[i].pc = "awaiting"
  /\ LET r == login.runs[i]
         message == OrElse(login.reply.stderr,
                           ExecErrorMessage(r.commandLine, login.reply.stderr))
     IN  IF login.reply.error
         THEN login' = [login EXCEPT !.runs[i] =
                          [r EXCEPT !.pc = "done",
                                    !.returned = <<"success: false",
                                                   OrElse(message, "Login failed")>>]]
         ELSE login' = [login EXCEPT !.runs[i] =
                          [r EXCEPT !.pc = "done",
                                    !.returned = <<"success: true">>],
                                     !.secrets = <<r.username, r.token>>]
  /\ UNCHANGED <<orchVars, uiAction, uiPc, payload, guardVars, messages,
                 treeVars, pushVars, posted, conc, panel>>

LoginNext == \E i \in {1, 2} : LoginExec(i) \/ LoginCallback(i)

SpecLogin == LoginInit /\ [][LoginNext]_vars

\* C9: two login calls with the same username and the same engine reply and
\* any two tokens hand the same command line to the shell, so the engine
\* receives the same argument vector, and return the same text; each call
\* writes its token to the child's standard input, and a token that is not
\* empty occurs neither in the command line nor in the returned text.
C9_SecretOnlyOnStdin ==
  LET a == login.runs[1]
      b == login.runs[2]
  IN  /\ (a.pc # "idle" /\ b.pc # "idle")
           => /\ a.commandLine = b.commandLine
              /\ a.received = b.received
      /\ (a.pc = "done" /\ b.pc = "done") => a.returned = b.returned
      /\ \A i \in {1, 2} :
           LET r == login.runs[i]
           IN  r.pc # "idle"
                 => /\ r.stdin = r.token
                    /\ r.token # ""
                         => /\ ~Includes(r.commandLine, r.token)
                            /\ \A k \in 1..Len(r.received) :
                                 ~Includes(r.received[k], r.token)
                            /\ \A k \in 1..Len(r.returned) :
                                 ~Includes(r.returned[k], r.token)

\* both calls have returned a failure, one with each token
C9_Witness ==
  /\ login.runs[1].pc = "done"
  /\ login.runs[2].pc = "done"
  /\ login.runs[1].token = "s3cret"
  /\ login.runs[2].token = "hunter2"
  /\ login.runs[1].stdin = "s3cret"
  /\ login.runs[2].stdin = "hunter2"
  /\ login.reply.error


(***************************************************************************)
(* One build or run call against an engine that writes step lines, a       *)
(* container identifier and a pull notice, with a line cut in two by a     *)
(* chunk boundary (SpecStream).                                            *)
(***************************************************************************)
ContainerIdText ==
  "0123456789abcdef0123456789abcdef0123456789abcdef0123456789ABCDEF"

StreamStdoutChunks ==
  { "Step 3/10 : RUN npm install\n", "Step 3/", "10 : RUN npm install\n",
    ContainerIdText \o "\n", "ERROR: y\n" }
StreamStderrChunks ==
  { "unable to find image\n", "Step 3/10 : RUN npm install\n", "Error: x\n",
    "open a: No such file or directory\n" }

StreamInit ==
  /\ OrchBase
  /\ UIInit
  /\ engineOutput = [stdout |-> StreamStdoutChunks, stderr |-> StreamStderrChunks]

\* the build of an existing build file and the run of a detached container
StreamBuildOptions ==
  {o \in BuildOptionsSet : /\ o.dockerfile # ""
                           /\ o.dockerfileContent = ""
                           /\ o.contextPath = "/ws"
                           /\ ~o.noCache}
StreamRunOptions == {r \in RunOptionsSet : r.detached /\ r.containerName = ""}

StreamNext ==
  \/ StartBuildFrom(StreamBuildOptions)
  \/ StartRunFrom(StreamRunOptions)
  \/ Spawn
  \/ StdoutData
  \/ StderrData
  \/ ProcClose
  \/ ProcError
  \/ ProcCloseAfterError
  \/ SettleBuild
  \/ SettleRun

SpecStream == StreamInit /\ [][StreamNext]_vars

(***************************************************************************)
(* Properties of the output handlers (SpecStream).                         *)
(***************************************************************************)
ExecStages == {"build", "run"}

\* the lines of a sequence that satisfy a test, as a set of positions
StepLinePositions(lines) == {i \in 1..Len(lines) : StepMatches(lines[i])}

\* C15: when the caller asked for progress, every output line of the shape
\* "Step N/M : <instruction>", on stdout or on stderr, has produced a
\* progress event carrying the instruction and the fraction N/M
C15_StepLinesGiveProgress ==
  \A s \in ExecStages :
    call.onProgress =>
      LET all == procs[s].outLines \o procs[s].errLines
      IN  \A i \in StepLinePositions(all) :
            \E j \in 1..Len(procs[s].progress) :
              procs[s].progress[j] = ProgressEvent(all[i])

\* the stdout lines that are one 64-hex-character token
ContainerIdLines(s) == SelectSeq(procs[s].outLines, IsContainerIdLine)

C17_UnableToFindImageIsError ==
  \A s \in ExecStages :
    (\E i \in 1..Len(procs[s].errLines) :
        procs[s].errLines[i] = "unable to find image")
    => Includes(errorOutput, "unable to find image")

\* C18: a result that follows a non-zero exit of the engine preserves the
\* exit code: the code can be read from the result
C18_ExitCodePreserved ==
  \A s \in ExecStages :
    (/\ results[s].set
     /\ procs[s].engine
     /\ procs[s].state = "closed"
     /\ procs[s].code \notin {"", "0", LaunchFailureCode})
    => Includes(results[s].error, procs[s].code)

\* C19: when there is no engine executable to launch, the result is a
\* failure carrying a launch-error message, no exit code and no logs
C19_LaunchFailureReported ==
  \A s \in ExecStages :
    (~procs[s].engine /\ results[s].set) =>
      /\ ~results[s].success
      /\ results[s].logs = <<>>
      /\ procs[s].code = ""
      /\ ~Includes(results[s].error, "exited with code")

\* C20: on each stream the delivered lines are the whole output of the
\* stream split at newlines, empty lines dropped, however the output was
\* cut into chunks
C20_LinesIndependentOfChunking ==
  \A s \in ExecStages :
    /\ procs[s].outLines = FilterBoolean(Split(procs[s].outText, "\n"))
    /\ procs[s].errLines = FilterBoolean(Split(procs[s].errText, "\n"))

(***************************************************************************)
(* Argument composition over wide option values (SpecArgv): the calls up   *)
(* to the composed argument vector.                                        *)
(***************************************************************************)
MaxList == 2

\* the sequences over a set, up to a length
SeqsUpTo(S, n) == UNION {[1..k -> S] : k \in 0..n}

ArgvPorts == {"8080:80", "53:53/udp"}
ArgvEnvEntries == { <<"A", "1">>, <<"MSG", "a b">>, <<"P", "-p">> }

\* Object.entries of a record: no key twice
DistinctKeys(entries) ==
  \A i, j \in 1..Len(entries) : entries[i][1] = entries[j][1] => i = j

ArgvRunOptions ==
  { [ imageName |-> "app", imageTag |-> "latest",
      containerName |-> n, detached |-> d, remove |-> ~d,
      interactive |-> FALSE, tty |-> FALSE,
      portMappings |-> ports, envVariables |-> env,
      volumes |-> vols, workingDir |-> "", network |-> "" ] :
    n \in {"", "web"}, d \in BOOLEAN,
    ports \in SeqsUpTo(ArgvPorts, MaxList),
    env \in {e \in SeqsUpTo(ArgvEnvEntries, MaxList) : DistinctKeys(e)},
    vols \in {<<>>, <<"/my ws:/data">>} }

ArgvBuildArgs == { <<"MSG", "a b">>, <<"V", "--no-cache">> }

ArgvBuildOptions ==
  { [ imageName |-> "app", imageTag |-> tag,
      dockerfile |-> "/ws/Dockerfile", dockerfileContent |-> c,
      contextPath |-> "/ws",
      noCache |-> nc, pull |-> pl, target |-> t, platform |-> pf,
      buildArgs |-> ba ] :
    c \in {"", "FROM a"}, nc \in BOOLEAN, pl \in BOOLEAN,
    t \in {"", "dev", "--no-cache"}, pf \in {"", "linux/amd64"},
    tag \in {"latest", "latest-test-1001"},
    ba \in {b \in SeqsUpTo(ArgvBuildArgs, MaxList) : DistinctKeys(b)} }

ArgvNext ==
  \/ StartRunFrom(ArgvRunOptions)
  \/ StartBuildFrom(ArgvBuildOptions)
  \/ StartTestBuildFrom(ArgvBuildOptions)

SpecArgv == Init /\ [][ArgvNext]_vars

\* the flags of docker run and docker build that take the next word as value
RunValueFlags == {"--name", "-p", "-e", "-v", "-w", "--network"}
BuildValueFlags == {"-t", "-f", "--target", "--platform", "--build-arg"}

\* the values given to a flag, reading the vector as the engine does: a
\* value-taking flag consumes the word after it
RECURSIVE FlagValues(_, _, _)
FlagValues(argv, flag, takers) ==
  IF argv = <<>> THEN <<>>
  ELSE IF argv[1] \in takers /\ Len(argv) >= 2
  THEN (IF argv[1] = flag THEN <<argv[2]>> ELSE <<>>)
       \o FlagValues(SubSeq(argv, 3, Len(argv)), flag, takers)
  ELSE FlagValues(Tail(argv), flag, takers)

\* the number of times a flag without value is given, read the same way
RECURSIVE FlagCount(_, _, _)
FlagCount(argv, flag, takers) ==
  IF argv = <<>> THEN 0
  ELSE IF argv[1] \in takers /\ Len(argv) >= 2
  THEN FlagCount(SubSeq(argv, 3, Len(argv)), flag, takers)
  ELSE (IF argv[1] = flag THEN 1 ELSE 0) + FlagCount(Tail(argv), flag, takers)

\* the words of a vector that equal a word, as positions
WordPositions(argv, word) == {i \in 1..Len(argv) : argv[i] = word}

\* KEY=value of each entry, in the order of the entries
EnvWords(entries) ==
  [i \in 1..Len(entries) |-> entries[i][1] \o "=" \o entries[i][2]]

\* C13: the run argument vector composed from N port mappings and M
\* environment variables has exactly N flags -p and M flags -e, each
\* directly followed by its value (the port string, KEY=value), in the
\* order the caller gave them
C13_PortAndEnvFlags ==
  (call.kind = "run" /\ args # <<>>) =>
    /\ FlagValues(args, "-p", RunValueFlags) = call.run.portMappings
    /\ FlagValues(args, "-e", RunValueFlags) = EnvWords(call.run.envVariables)
    /\ Cardinality(WordPositions(args, "-p")) = Len(call.run.portMappings)
    /\ Cardinality(WordPositions(args, "-e")) = Len(call.run.envVariables)

C13_Witness ==
  /\ call.kind = "run"
  /\ call.run.portMappings = <<"53:53/udp", "8080:80">>
  /\ call.run.envVariables = << <<"P", "-p">>, <<"A", "1">> >>
  /\ args # <<>>

\* C14: the build argument vector composed from options with noCache set
\* has the flag --no-cache exactly once, whatever the other options are
C14_NoCacheOnce ==
  (call.kind \in {"build", "testBuild"} /\ args # <<>> /\ call.build.noCache) =>
    FlagCount(args, "--no-cache", BuildValueFlags) = 1

C14_Witness ==
  /\ call.kind = "build"
  /\ call.build.noCache
  /\ call.build.pull
  /\ call.build.target = "--no-cache"
  /\ args # <<>>

(***************************************************************************)
(* Two calls of buildDockerImage with inline build-file text on one        *)
(* context directory, overlapping in time (SpecConc).  Each call runs      *)
(* without interruption up to its await; the clock is the wall clock in    *)
(* milliseconds and need not move between two calls.                       *)
(***************************************************************************)
MaxClock == 2

ConcContents == {"FROM a", "FROM b"}
ConcContexts == {"/ws", "/ws/.dockforge"}

\* Date.now().toString()
ClockText(ms) == ToString(ms)

\* fs.writeFileSync(path, content): the file holds the content written last
WriteFile(disk, path, content) ==
  [q \in DOMAIN disk \cup {path} |-> IF q = path THEN content ELSE disk[q]]

\* fs.unlinkSync(path)
UnlinkFile(disk, path) == [q \in DOMAIN disk \ {path} |-> disk[q]]

\* what the engine finds when it opens the -f file
ReadFile(disk, path) == IF path \in DOMAIN disk THEN disk[path] ELSE "ENOENT"

\* the names a file of the context directory can have before the calls: the
\* usual build file, or a name of the temporary files' form (a file left
\* behind by an earlier build, or one the user saved)
ConcExistingNames(ctx) ==
  {PathJoin(ctx, "Dockerfile")}
  \cup {TempDockerfilePath(ctx, ClockText(ms)) : ms \in 0..MaxClock}

\* the context directory holds a file before any call is made
ConcExisting ==
  /\ \A i \in {1, 2} : conc.calls[i].pc = "idle"
  /\ conc.disk = <<>>
  /\ \E ctx \in ConcContexts :
       \E path \in ConcExistingNames(ctx) :
         conc' = [conc EXCEPT !.contextPath = ctx,
                              !.disk = WriteFile(<<>>, path, "FROM user"),
                              !.existing = WriteFile(<<>>, path, "FROM user")]
  /\ UNCHANGED <<orchVars, uiAction, uiPc, payload, guardVars, messages,
                 treeVars, pushVars, posted, login, panel>>

\* a millisecond passes
ConcTick ==
  /\ conc.clock < MaxClock
  /\ conc' = [conc EXCEPT !.clock = @ + 1]
  /\ UNCHANGED <<orchVars, uiAction, uiPc, payload, guardVars, messages,
                 treeVars, pushVars, posted, login, panel>>

\* buildDockerImage up to the await: createTempDockerfile writes the file
\* named after the clock, the engine is started on it
ConcStart(i) ==
  /\ conc.calls[i].pc = "idle"
  /\ \E content \in ConcContents, ctx \in ConcContexts :
       /\ conc.contextPath \in {"", ctx}
       /\ LET tmp == TempDockerfilePath(ctx, ClockText(conc.clock))
          IN  conc' = [conc EXCEPT
                         !.calls[i] = [pc |-> "started", content |-> content,
                                       tmp |-> tmp, input |-> ""],
                         !.contextPath = ctx,
                         !.disk = WriteFile(@, tmp, content)]
  /\ UNCHANGED <<orchVars, uiAction, uiPc, payload, guardVars, messages,
                 treeVars, pushVars, posted, login, panel>>

\* the engine of a call opens its build file
ConcEngineReads(i) ==
  /\ conc.calls[i].pc = "started"
  /\ conc' = [conc EXCEPT
                !.calls[i].pc = "building",
                !.calls[i].input = ReadFile(conc.disk, conc.calls[i].tmp)]
  /\ UNCHANGED <<orchVars, uiAction, uiPc, payload, guardVars, messages,
                 treeVars, pushVars, posted, login, panel>>

\* the engine of a call closes; the finally block runs cleanupTempDockerfile
ConcFinish(i) ==
  /\ conc.calls[i].pc = "building"
  /\ LET tmp == conc.calls[i].tmp
     IN  conc' = [conc EXCEPT
                    !.calls[i].pc = "done",
                    !.disk = IF tmp \in DOMAIN @ /\ Includes(tmp, ".dockforge")
                             THEN UnlinkFile(@, tmp) ELSE @]
  /\ UNCHANGED <<orchVars, uiAction, uiPc, payload, guardVars, messages,
                 treeVars, pushVars, posted, login, panel>>

ConcNext ==
  \/ ConcExisting
  \/ ConcTick
  \/ \E i \in {1, 2} : ConcStart(i)
  \/ \E i \in {1, 2} : ConcEngineReads(i)
  \/ \E i \in {1, 2} : ConcFinish(i)

SpecConc == Init /\ [][ConcNext]_vars

\* a call that has written its file and whose engine has not closed
ConcInFlight(i) == conc.calls[i].pc \in {"started", "building"}

\* C11: two build calls with inline text that overlap in time on one
\* context directory use different temporary file names, and the build
\* input each engine reads is the text of its own call
C11_DistinctTempNames ==
  /\ (ConcInFlight(1) /\ ConcInFlight(2)) =>
        conc.calls[1].tmp # conc.calls[2].tmp
  /\ \A i \in {1, 2} :
        conc.calls[i].pc \in {"building", "done"} =>
          conc.calls[i].input = conc.calls[i].content

(***************************************************************************)
(* One builder panel: the webview's buttons and message listener, and the  *)
(* extension's message listener, whose handlers are asynchronous and run   *)
(* side by side (SpecPanel).                                               *)
(***************************************************************************)
MaxClicks == 2

\* imageName:imageTag as the form holds them when a button is clicked
PanelTargets == {"app:latest", "web:latest"}

\* the completion command of a handler
CompletionCommand(type) ==
  IF type = "RUN_CONTAINER" THEN "runComplete"
  ELSE IF type = "BUILD_AND_RUN" THEN "buildRunComplete"
  ELSE "buildComplete"

\* handleRunTestBuild, handleBuildImage, handleRunContainer and
\* handleBuildAndRun: the buttons carry no disabled attribute, so a click is
\* taken whatever isBuilding is
PanelClick ==
  /\ panel.clicks < MaxClicks
  /\ \E type \in PanelCommands, target \in PanelTargets :
       panel' = [panel EXCEPT
                   !.clicks = @ + 1,
                   !.isBuilding = TRUE,
                   !.toExtension = Append(@, [type |-> type, target |-> target])]
  /\ UNCHANGED <<orchVars, uiAction, uiPc, payload, guardVars, messages,
                 treeVars, pushVars, posted, login, conc>>

\* the extension's listener takes a message: after ensureDockerReady it
\* starts the operation and awaits it, or returns
PanelListen ==
  /\ panel.toExtension # <<>>
  /\ \E ready \in BOOLEAN :
       LET message == Head(panel.toExtension)
       IN  panel' = [panel EXCEPT
                       !.toExtension = Tail(@),
                       !.operations =
                          IF ready
                          THEN Append(@, [type |-> message.type,
                                          target |-> message.target,
                                          pending |-> TRUE])
                          ELSE @]
  /\ UNCHANGED <<orchVars, uiAction, uiPc, payload, guardVars, messages,
                 treeVars, pushVars, posted, login, conc>>

\* an awaited operation returns: the handler posts its completion message
PanelOperationReturns ==
  /\ \E k \in 1..Len(panel.operations) :
       /\ panel.operations[k].pending
       /\ panel' = [panel EXCEPT
                      !.operations[k].pending = FALSE,
                      !.toWebview =
                         Append(@, CompletionCommand(panel.operations[k].type))]
  /\ UNCHANGED <<orchVars, uiAction, uiPc, payload, guardVars, messages,
                 treeVars, pushVars, posted, login, conc>>

\* the webview's listener takes a completion message: setIsBuilding(false)
PanelWebviewListen ==
  /\ panel.toWebview # <<>>
  /\ panel' = [panel EXCEPT !.toWebview = Tail(@), !.isBuilding = FALSE]
  /\ UNCHANGED <<orchVars, uiAction, uiPc, payload, guardVars, messages,
                 treeVars, pushVars, posted, login, conc>>

BuilderNext ==
  \/ PanelClick
  \/ PanelListen
  \/ PanelOperationReturns
  \/ PanelWebviewListen

SpecPanel == Init /\ [][BuilderNext]_vars

\* the operations of the panel that are still awaited, as positions
PendingOperations == {k \in 1..Len(panel.operations) : panel.operations[k].pending}

\* C12: while an operation started from the panel is pending, no second
\* operation against the same target is started from that panel
C12_OnePendingPerTarget ==
  \A j, k \in PendingOperations :
    panel.operations[j].target = panel.operations[k].target => j = k

\* the lines of a failed invocation that the stderr handler's test accepts
ErrorLikeLines(lines) == SelectSeq(lines, IsErrorLine)

\* C21: when a build ends with a non-zero exit, the error of the result is
\* the error-like lines of the invocation, of either stream, in delivery
\* order; the exit-code message is used only when there is none
C21_ErrorBodyIsErrorLines ==
  (/\ results["build"].set
   /\ procs["build"].engine
   /\ procs["build"].state = "closed"
   /\ procs["build"].code \notin {"", "0", LaunchFailureCode})
  => LET errs == ErrorLikeLines(results["build"].logs)
     IN  results["build"].error =
           IF errs = <<>>
           THEN "Process exited with code " \o procs["build"].code
           ELSE ErrorText(errs)

\* the markers of an error-like line
ErrorMarkers == {"error", "failed", "cannot", "no such file"}

\* C22: a line is error-like exactly when it contains, in any case, one of
\* the markers "error", "failed", "cannot", "no such file"
C22_ErrorMarkers ==
  \A s \in ExecStages :
    \A i \in 1..Len(procs[s].errLines) :
      IsErrorLine(procs[s].errLines[i])
      <=> \E marker \in ErrorMarkers :
            Includes(ToLowerCase(procs[s].errLines[i]), marker)

\* the flags of a vector in order, read as the engine does: the word after
\* a value-taking flag is its value
RECURSIVE FlagWords(_, _)
FlagWords(argv, takers) ==
  IF argv = <<>> THEN <<>>
  ELSE IF argv[1] \in takers /\ Len(argv) >= 2
  THEN <<argv[1]>> \o FlagWords(SubSeq(argv, 3, Len(argv)), takers)
  ELSE <<argv[1]>> \o FlagWords(Tail(argv), takers)

\* the optional build flags the options ask for, in the order of the claim
BuildFlagsAsked(o) ==
  (IF o.noCache THEN <<"--no-cache">> ELSE <<>>)
  \o (IF o.pull THEN <<"--pull">> ELSE <<>>)
  \o (IF o.target # "" THEN <<"--target">> ELSE <<>>)
  \o (IF o.platform # "" THEN <<"--platform">> ELSE <<>>)
  \o [i \in 1..Len(o.buildArgs) |-> "--build-arg"]

\* C23: the build argument vector is "build", -t <name>:<tag>, -f <build
\* file>, then the optional flags in the order --no-cache, --pull,
\* --target <t>, --platform <p>, one --build-arg KEY=value per build
\* argument, and the context path as its last element
C23_BuildOrder ==
  (call.kind \in {"build", "testBuild"} /\ args # <<>>) =>
    LET o == call.build
        n == Len(args)
        optional == SubSeq(args, 6, n - 1)
    IN  /\ n >= 6
        /\ SubSeq(args, 1, 5) =
             <<"build", "-t", o.imageName \o ":" \o o.imageTag, "-f",
               IF o.dockerfileContent # "" THEN tempDockerfilePath
               ELSE o.dockerfile>>
        /\ args[n] = o.contextPath
        /\ FlagWords(optional, BuildValueFlags) = BuildFlagsAsked(o)
        /\ FlagValues(optional, "--target", BuildValueFlags) =
             (IF o.target # "" THEN <<o.target>> ELSE <<>>)
        /\ FlagValues(optional, "--platform", BuildValueFlags) =
             (IF o.platform # "" THEN <<o.platform>> ELSE <<>>)
        /\ FlagValues(optional, "--build-arg", BuildValueFlags) =
             EnvWords(o.buildArgs)

C23_Witness ==
  /\ call.kind = "build"
  /\ call.build.noCache /\ call.build.pull
  /\ call.build.target = "dev" /\ call.build.platform = "linux/amd64"
  /\ Len(call.build.buildArgs) = 2
  /\ call.build.dockerfileContent # ""
  /\ args # <<>>

\* the place of a run flag in the order: name, detachment and cleanup,
\* interactivity, ports, environment, volumes, working directory and network
RunFlagRank(flag) ==
  CASE flag = "--name" -> 1
    [] flag \in {"-d", "--rm"} -> 2
    [] flag \in {"-i", "-t"} -> 3
    [] flag = "-p" -> 4
    [] flag = "-e" -> 5
    [] flag = "-v" -> 6
    [] flag \in {"-w", "--network"} -> 7
    [] OTHER -> 8

\* a run vector in that order: "run", the flags by rising place, the image
InRunOrder(argv) ==
  LET flags == FlagWords(SubSeq(argv, 2, Len(argv) - 1), RunValueFlags)
  IN  /\ Len(argv) >= 2
      /\ argv[1] = "run"
      /\ \A i, j \in 1..Len(flags) :
            i < j => RunFlagRank(flags[i]) <= RunFlagRank(flags[j])

\* C24: every run argument vector the extension composes has the order
\* name, -d / --rm, -i / -t, ports, environment variables, volumes,
\* working directory and network, and the image reference last
C24_RunOrder ==
  /\ (stage = "run" /\ args # <<>>) =>
        /\ InRunOrder(args)
        /\ args[Len(args)] = call.run.imageName \o ":" \o call.run.imageTag
  /\ \A i \in 1..Len(execs) :
        execs[i].op = "run" => InRunOrder(execs[i].argv)

\* C25: a test build is the build of the caller's options with --no-cache
\* forced and the tag <caller tag>-test-<token>: the tag handed to the
\* engine is never the caller's tag, and the caller's options object (kept
\* in call.given) is not changed
C25_TestBuildTag ==
  (call.kind = "testBuild" /\ args # <<>>) =>
    LET o == call.given
    IN  /\ \E token \in Timestamps :
              call.build = [o EXCEPT !.imageTag = o.imageTag \o "-test-" \o token,
                                     !.noCache = TRUE]
        /\ FlagValues(args, "-t", BuildValueFlags) # <<o.imageName \o ":" \o o.imageTag>>
        /\ FlagValues(args, "-t", BuildValueFlags) =
             <<call.build.imageName \o ":" \o call.build.imageTag>>
        /\ FlagCount(args, "--no-cache", BuildValueFlags) = 1
        /\ o \in ArgvBuildOptions

C25_Witness ==
  /\ call.kind = "testBuild"
  /\ args # <<>>
  /\ ~call.given.noCache
  /\ call.given.imageTag = "latest-test-1001"
  /\ call.build.imageTag = "latest-test-1001-test-1001"

\* the namespace warnings shown, as positions in the messages
NamespaceWarnings ==
  {i \in 1..Len(messages) :
     /\ messages[i].kind = "modal"
     /\ Includes(messages[i].text, "has no username namespace")}

\* C26: one push action offers the re-tag at most once: interactivePush
\* calls itself at most once, the call it makes with the new reference
\* passes the namespace check and goes to the confirmation, and a new name
\* without namespace cancels the push
C26_RetagAtMostOnce ==
  uiAction = "pushImage" =>
    /\ pushDepth <= 1
    /\ Cardinality(NamespaceWarnings) <= 1
    /\ pushDepth = 1 =>
          /\ Includes(Split(pushName, ":")[1], "/")
          /\ uiPc \in {"pushConfirm", "pushing", "done"}
          /\ Len(execs) = 1
    /\ (\E i \in 1..Len(messages) :
          messages[i].text = "Image still has no namespace. Push cancelled.")
        => /\ uiPc = "done"
           /\ pushDepth = 0
           /\ pushReturn = "undefined"
           /\ call.kind = "none"

C26_Witness ==
  /\ uiAction = "pushImage"
  /\ pushDepth = 1
  /\ pushOrig = "app:latest"
  /\ pushName = "u/app"
  /\ Cardinality(NamespaceWarnings) = 1
  /\ pushReturn = "result"

\* C27: a file that was in the context directory before the build calls is
\* neither overwritten by the temporary build file nor deleted by the cleanup
C27_ExistingFilesUntouched ==
  \A path \in DOMAIN conc.existing :
    /\ path \in DOMAIN conc.disk
    /\ conc.disk[path] = conc.existing[path]

\* C28: a build call with neither inline text nor a build-file path is
\* refused before any process is spawned: no process, no temporary file,
\* and a failed result with an error text; a build call with only a
\* build-file path creates no temporary file
C28_NoInputRejected ==
  call.kind \in {"build", "testBuild", "buildAndRun"} =>
    LET o == call.build
    IN  /\ (o.dockerfileContent = "" /\ o.dockerfile = "") =>
              /\ procs = [s \in Stages |-> NoProc]
              /\ args = <<>>
              /\ tempDockerfilePath = ""
              /\ fsFiles \in InitialDisks
              /\ pc \in {"settle", "returned"}
              /\ pc = "returned" =>
                    /\ results["build"].set
                    /\ ~results["build"].success
                    /\ results["build"].error # ""
        /\ (o.dockerfileContent = "" /\ o.dockerfile # "") =>
              /\ tempDockerfilePath = ""
              /\ fsFiles \in InitialDisks

C28_Witness ==
  /\ call.kind = "build"
  /\ call.build.dockerfileContent = ""
  /\ call.build.dockerfile = ""
  /\ pc = "returned"
  /\ results["build"].error = "No Dockerfile or Dockerfile content provided"

(***************************************************************************)
(* pushImageToHub on engine output that carries digests (SpecDigest).      *)
(***************************************************************************)
DigestStdoutChunks ==
  { "latest: digest: sha256:0a1b size: 528\n", "Digest:  SHA256:ff\n",
    "The push refers to repository\n" }
DigestStderrChunks == { "digest: sha256:9c\n", "denied: access\n" }

DigestInit ==
  /\ OrchBase
  /\ UIInit
  /\ engineOutput = [stdout |-> DigestStdoutChunks, stderr |-> DigestStderrChunks]

DigestNext ==
  \/ StartPush
  \/ Spawn
  \/ StdoutData
  \/ StderrData
  \/ ProcClose
  \/ ProcError
  \/ ProcCloseAfterError
  \/ SettlePush

SpecDigest == DigestInit /\ [][DigestNext]_vars

\* the lines of a push that carry a digest, in delivery order
DigestLines == SelectSeq(results["push"].logs, DigestMatches)

\* C29: a successful push result carries the sha256 digest of the last
\* output line, of either stream, that matches "digest: sha256:<hex>" in
\* any case, and none when no line matched; a failed push result carries
\* no digest
C29_PushDigest ==
  results["push"].set =>
    LET r == results["push"]
    IN  /\ r.success /\ DigestLines # <<>> =>
              /\ r.digest = DigestOf(DigestLines[Len(DigestLines)])
              /\ ToLowerCase(Slice(r.digest, 1, 7)) = "sha256:"
              /\ PrefixLen(From(r.digest, 8), HexChars) = Len(r.digest) - 7
              /\ Len(r.digest) > 7
        /\ r.success /\ DigestLines = <<>> => r.digest = ""
        /\ ~r.success => r.digest = ""

C29_Witness ==
  /\ results["push"].set
  /\ results["push"].success
  /\ results["push"].logs =
       <<"latest: digest: sha256:0a1b size: 528", "digest: sha256:9c">>
  /\ results["push"].digest = "sha256:9c"


(***************************************************************************)
(* resolveDockerPath over the life of the extension host: calls of the     *)
(* function interleaved with installs and removals of the engine binary.   *)
(***************************************************************************)
MaxResolves == 3

\* the places resolveDockerPath looks at
DockerCandidates ==
  {PathJoin(DOCKER_SEARCH_PATHS[i], "docker") : i \in 1..Len(DOCKER_SEARCH_PATHS)}

ResolveInit ==
  /\ OrchBase
  /\ UIInit
  /\ engineOutput = [stdout |-> {}, stderr |-> {}]

\* a call of the exported function resolveDockerPath
ResolveDockerPathCall ==
  /\ Len(pathCalls) < MaxResolves
  /\ pathCalls' = Append(pathCalls, PathCall(resolvedDockerPath, fsFiles))
  /\ resolvedDockerPath' = ResolveDockerPath(resolvedDockerPath, fsFiles)
  /\ UNCHANGED <<call, pc, stage, fsFiles, tempDockerfilePath, unlinkFailed,
                 args, procs, resolved, pending, logs, errorOutput,
                 onOutputLines, channel, results, outcome, engineOutput,
                 hostVars, uiVars>>

\* the environment installs or removes an engine binary
DiskChange ==
  /\ \E f \in DockerCandidates :
       fsFiles' = IF f \in fsFiles THEN fsFiles \ {f} ELSE fsFiles \cup {f}
  /\ UNCHANGED <<call, pc, stage, tempDockerfilePath, unlinkFailed, args,
                 procs, resolved, pending, logs, errorOutput, onOutputLines,
                 channel, results, outcome, resolvedDockerPath, pathCalls, hostVars,
                 engineOutput, uiVars>>

ResolveNext ==
  \/ ResolveDockerPathCall
  \/ DiskChange

SpecResolve == ResolveInit /\ [][ResolveNext]_vars

\* the candidates of a probe sequence are the head of the search list, in
\* list order, and only the last of them may exist
ProbedInListOrder(probed) ==
  /\ Len(probed) <= Len(DOCKER_SEARCH_PATHS)
  /\ \A i \in 1..Len(probed) :
       /\ probed[i].candidate = PathJoin(DOCKER_SEARCH_PATHS[i], "docker")
       /\ i < Len(probed) => ~probed[i].exists

\* what a probe sequence resolves to
FirstMatch(probed) ==
  IF probed # <<>> /\ probed[Len(probed)].exists
  THEN probed[Len(probed)].candidate ELSE "docker"

\* C30: the engine path is resolved at most once. The first resolveDockerPath
\* call probes the well-known directories in list order and returns the
\* first existing candidate, or "docker" after probing all of them in vain;
\* every later call returns the same value without probing, whatever has
\* happened on disk since; the cache holds the first value ever after.
C30_ResolvedOnce ==
  /\ pathCalls = <<>> => resolvedDockerPath = ""
  /\ pathCalls # <<>> =>
       /\ ProbedInListOrder(pathCalls[1].probed)
       /\ pathCalls[1].returned = FirstMatch(pathCalls[1].probed)
       /\ pathCalls[1].returned = "docker"
            => Len(pathCalls[1].probed) = Len(DOCKER_SEARCH_PATHS)
       /\ resolvedDockerPath = pathCalls[1].returned
       /\ \A i \in 2..Len(pathCalls) :
            /\ pathCalls[i].returned = pathCalls[1].returned
            /\ pathCalls[i].probed = <<>>

\* a later call returns a path that is no longer on disk although another
\* candidate now is
C30_Witness ==
  /\ Len(pathCalls) >= 2
  /\ pathCalls[1].returned # "docker"
  /\ pathCalls[Len(pathCalls)].returned \notin fsFiles
  /\ fsFiles \cap DockerCandidates # {}


(***************************************************************************)
(* getDockerEnv over search paths of the extension host.                   *)
(***************************************************************************)
MaxPathEntries == 3

\* directories a PATH may list: two well-known ones, one that is not, and
\* the empty entry
PathEntries == {"/usr/bin", "/opt/homebrew/bin", "/home/u/bin", ""}

PathEnvs ==
  { [PATH |-> Join(entries, PathDelimiter)] :
      entries \in UNION {[1..n -> PathEntries] : n \in 0..MaxPathEntries} }

\* the extra argument of getDockerEnv
ExtraEnvs == { <<>>, [PATH |-> "/x"], [DOCKER_BUILDKIT |-> "1"] }

PathInit ==
  /\ OrchBaseIn(PathEnvs)
  /\ UIInit
  /\ engineOutput = [stdout |-> {}, stderr |-> {}]

\* a call of the exported function getDockerEnv
GetDockerEnvCall ==
  /\ \E extra \in ExtraEnvs : dockerEnv' = GetDockerEnv(processEnv, extra)
  /\ UNCHANGED <<call, pc, stage, fsFiles, tempDockerfilePath, unlinkFailed,
                 args, procs, resolved, pending, logs, errorOutput,
                 onOutputLines, channel, results, outcome, resolvedDockerPath,
                 pathCalls, processEnv, inserts, auth, builderVars, engineOutput, uiVars>>

PathNext == GetDockerEnvCall

SpecPath == PathInit /\ [][PathNext]_vars

\* how many entries of a list equal d
Occurrences(list, d) == Cardinality({i \in 1..Len(list) : list[i] = d})

WellKnownDirs == {DOCKER_SEARCH_PATHS[i] : i \in 1..Len(DOCKER_SEARCH_PATHS)}

\* C31: the enriched search path is the well-known directories that are not
\* entries of the current path, in list order, followed by the current path
\* unchanged: every well-known directory occurs in it, none that was already
\* present is added again, and enriching the result once more adds nothing.
C31_EnrichedPath ==
  dockerEnv # NoEnv =>
    LET current == Split(processEnv.PATH, PathDelimiter)
        enriched == Split(dockerEnv.PATH, PathDelimiter)
        added == Len(enriched) - Len(current)
    IN  /\ added >= 0
        /\ SubSeq(enriched, added + 1, Len(enriched)) = current
        /\ \A i \in 1..added :
             /\ enriched[i] \in WellKnownDirs
             /\ Occurrences(current, enriched[i]) = 0
        /\ \A i, j \in 1..Len(DOCKER_SEARCH_PATHS) :
             \A m, n \in 1..added :
               (enriched[m] = DOCKER_SEARCH_PATHS[i]
                /\ enriched[n] = DOCKER_SEARCH_PATHS[j] /\ i < j) => m < n
        /\ \A d \in WellKnownDirs : Occurrences(enriched, d) >= 1
        /\ \A d \in WellKnownDirs :
             Occurrences(current, d) >= 1
               => Occurrences(enriched, d) = Occurrences(current, d)
        /\ GetEnrichedPath(dockerEnv.PATH) = dockerEnv.PATH

\* an environment was composed from a path that lists a well-known
\* directory twice, next to one that is not well-known
C31_Witness ==
  /\ dockerEnv # NoEnv
  /\ Occurrences(Split(processEnv.PATH, PathDelimiter), "/usr/bin") = 2
  /\ Occurrences(Split(processEnv.PATH, PathDelimiter), "/home/u/bin") = 1
  /\ dockerEnv.PATH # processEnv.PATH


(***************************************************************************)
(* The builder panel's INSERT_TO_WORKSPACE handler.                        *)
(***************************************************************************)
MaxInserts == 2

\* a path that is always the folder's Dockerfile
UniqueDockerfilePath_Fixed(dir, counter, files) ==
  PathJoin(dir, "Dockerfile")

\* _getUniqueDockerfilePath: the do-while loop from the given counter on
RECURSIVE UniqueDockerfilePath(_, _, _)
UniqueDockerfilePath(dir, counter, files) ==
  LET suffix == IF counter = 0 THEN "" ELSE ToString(counter)
      filePath == PathJoin(dir, "Dockerfile" \o suffix)
  IN  IF filePath \in files
      THEN UniqueDockerfilePath(dir, counter + 1, files)
      ELSE filePath

\* message.payload of INSERT_TO_WORKSPACE: the text and the warnings
InsertPayloads ==
  { [dockerfileText |-> t, warnings |-> w] :
      t \in {" ", "FROM a"}, w \in {<<>>, <<"no CMD", "no tag">>} }

\* what the modal returns: a button, or "" when it is dismissed
InsertChoices == {"Keep Editing", "Insert Anyway", ""}

\* showOpenDialog's answer: the folder picked, "" for none
InsertFolders == {"", "/ws"}

\* Dockerfiles the user may save into the folder on their own
WorkspaceDockerfiles == {"/ws/Dockerfile1"}

InsertWarningText(n) == "There are " \o ToString(n) \o " validation warning(s)."

\* one run of the handler, as recorded in inserts
NewInsert(pl) ==
  [outcome |-> "pending", content |-> ResolveDockerfileContent(pl.dockerfileText),
   warnings |-> Len(pl.warnings), choice |-> "none", folder |-> "none",
   path |-> "", existed |-> FALSE]

\* the handler up to its first await
InsertMessage ==
  /\ uiPc \in {"idle", "done"}
  /\ pc = "idle"
  /\ Len(inserts) < MaxInserts
  /\ \E pl \in InsertPayloads :
       LET dockerfileContent == ResolveDockerfileContent(pl.dockerfileText)
       IN
       /\ payload' = pl
       /\ IF Len(Trim(dockerfileContent)) = 0
          THEN /\ messages' = Append(messages,
                    Notice("error", "Dockerfile content is empty. Nothing to insert."))
               /\ inserts' = Append(inserts, [NewInsert(pl) EXCEPT !.outcome = "empty"])
               /\ uiPc' = "done"
          ELSE IF Len(pl.warnings) > 0
          THEN /\ messages' = Append(messages,
                    Notice("modal", InsertWarningText(Len(pl.warnings))))
               /\ inserts' = Append(inserts, NewInsert(pl))
               /\ uiPc' = "insertWarn"
          ELSE /\ messages' = messages
               /\ inserts' = Append(inserts, NewInsert(pl))
               /\ uiPc' = "insertFolder"
  /\ uiAction' = "INSERT_TO_WORKSPACE"
  /\ UNCHANGED <<call, pc, stage, fsFiles, tempDockerfilePath, unlinkFailed,
                 args, procs, resolved, pending, logs, errorOutput,
                 onOutputLines, channel, results, outcome, resolvedDockerPath,
                 pathCalls, processEnv, dockerEnv, auth, builderVars, engineOutput,
                 guardVars, treeVars, pushVars, posted, login, conc, panel>>

\* the user answers the warning modal
InsertWarnAnswer ==
  /\ uiPc = "insertWarn"
  /\ \E choice \in InsertChoices :
       /\ inserts' = [inserts EXCEPT ![Len(inserts)] =
                        [@ EXCEPT !.choice = choice,
                                  !.outcome = IF choice # "Insert Anyway"
                                              THEN "declined" ELSE @]]
       /\ uiPc' = IF choice # "Insert Anyway" THEN "done" ELSE "insertFolder"
  /\ UNCHANGED <<call, pc, stage, fsFiles, tempDockerfilePath, unlinkFailed,
                 args, procs, resolved, pending, logs, errorOutput,
                 onOutputLines, channel, results, outcome, resolvedDockerPath,
                 pathCalls, processEnv, dockerEnv, auth, builderVars, engineOutput,
                 uiAction, payload, messages,
                 guardVars, treeVars, pushVars, posted, login, conc, panel>>

\* the user answers the folder dialog; the handler picks the name, writes
\* the file and reports
InsertFolderAnswer ==
  /\ uiPc = "insertFolder"
  /\ \E folder \in InsertFolders, writeOk \in BOOLEAN :
       LET dockerfilePath == UniqueDockerfilePath(folder, 0, fsFiles)
           this == inserts[Len(inserts)]
       IN
       IF folder = ""
       THEN /\ inserts' = [inserts EXCEPT ![Len(inserts)] =
                             [@ EXCEPT !.folder = "", !.outcome = "noFolder"]]
            /\ UNCHANGED <<fsFiles, messages>>
       ELSE /\ inserts' = [inserts EXCEPT ![Len(inserts)] =
                             [@ EXCEPT !.folder = folder,
                                       !.path = dockerfilePath,
                                       !.existed = (dockerfilePath \in fsFiles),
                                       !.outcome = IF writeOk THEN "written"
                                                   ELSE "writeFailed"]]
            /\ fsFiles' = IF writeOk THEN fsFiles \cup {dockerfilePath} ELSE fsFiles
            /\ messages' = Append(messages,
                 IF writeOk
                 THEN Notice("info", "Dockerfile created successfully:\n"
                                     \o dockerfilePath)
                 ELSE Notice("error", "Failed to create Dockerfile: "
                                      \o WriteErrorMessage))
  /\ uiPc' = "done"
  /\ UNCHANGED <<call, pc, stage, tempDockerfilePath, unlinkFailed,
                 args, procs, resolved, pending, logs, errorOutput,
                 onOutputLines, channel, results, outcome, resolvedDockerPath,
                 pathCalls, processEnv, dockerEnv, auth, builderVars, engineOutput,
                 uiAction, payload,
                 guardVars, treeVars, pushVars, posted, login, conc, panel>>

\* the user saves or deletes a Dockerfile of their own in the folder
WorkspaceFileChange ==
  /\ \E f \in WorkspaceDockerfiles :
       fsFiles' = IF f \in fsFiles THEN fsFiles \ {f} ELSE fsFiles \cup {f}
  /\ UNCHANGED <<call, pc, stage, tempDockerfilePath, unlinkFailed, args,
                 procs, resolved, pending, logs, errorOutput, onOutputLines,
                 channel, results, outcome, resolvedDockerPath, pathCalls,
                 hostVars, engineOutput, uiVars>>

InsertNext ==
  \/ InsertMessage
  \/ InsertWarnAnswer
  \/ InsertFolderAnswer
  \/ WorkspaceFileChange

SpecInsert == Init /\ [][InsertNext]_vars

\* the names Dockerfile, Dockerfile1, ... of a folder up to the n-th
DockerfileName(dir, n) ==
  PathJoin(dir, "Dockerfile" \o (IF n = 0 THEN "" ELSE ToString(n)))

\* the handler's write: one new file, named by the first free name
InsertWrites ==
  /\ Len(inserts') = Len(inserts)
  /\ inserts # <<>>
  /\ LET before == inserts[Len(inserts)]
         after == inserts'[Len(inserts)]
     IN  /\ before.outcome = "pending"
         /\ after.outcome = "written"
         /\ after.path \notin fsFiles
         /\ fsFiles' = fsFiles \cup {after.path}
         /\ \E n \in 0..Cardinality(fsFiles) :
              /\ after.path = DockerfileName(after.folder, n)
              /\ \A k \in 0..(n - 1) : DockerfileName(after.folder, k) \in fsFiles

\* C32: inserting a Dockerfile never overwrites a file. A write creates the
\* first of Dockerfile, Dockerfile1, Dockerfile2, ... that is not in the
\* selected folder, and the handler writes nothing when the content is
\* empty, when there are warnings and the answer was not "Insert Anyway",
\* or when no folder was selected.
C32_InsertNeverOverwrites ==
  /\ [](\A i \in 1..Len(inserts) :
          /\ inserts[i].outcome = "written" =>
               /\ ~inserts[i].existed
               /\ Len(Trim(inserts[i].content)) > 0
               /\ inserts[i].warnings > 0 => inserts[i].choice = "Insert Anyway"
               /\ inserts[i].folder \notin {"", "none"}
          /\ inserts[i].outcome \in {"empty", "declined", "noFolder"}
               => inserts[i].path = "")
  /\ [][(fsFiles' # fsFiles /\ inserts' # inserts) => InsertWrites]_vars

\* a second insert into a folder that holds Dockerfile and Dockerfile1
\* was written as Dockerfile2
C32_Witness ==
  /\ Len(inserts) = 2
  /\ inserts[2].outcome = "written"
  /\ inserts[2].path = "/ws/Dockerfile2"
  /\ inserts[1].outcome = "written"


(***************************************************************************)
(* One request of the builder webview, from the click to the end of the    *)
(* extension's handler, with every enabled step eventually taken.          *)
(***************************************************************************)
\* the payloads of the requests: a form filled in, and one with a field
\* left empty or no folder open
RequestPayloads ==
  { pl \in PanelPayloads :
      /\ ~pl.noCache
      /\ pl.dockerfileText \in {"", "FROM a"}
      /\ Cardinality({f \in {"imageName", "dockerfileText", "workspace"} :
                        pl[f] = ""}) <= 1 }

RequestInit ==
  /\ OrchBase
  /\ UIInit
  /\ engineOutput = [stdout |-> {"Successfully built 0a1b2c3d4e5f\n"},
                     stderr |-> {}]

RequestNext ==
  \/ PanelMessageFrom(PanelCommands, RequestPayloads)
  \/ GuardProbeBinary
  \/ GuardPromptAnswer
  \/ GuardProbeDaemon
  \/ PanelAfterGuard
  \/ PanelComplete
  \/ Spawn
  \/ StdoutData
  \/ StderrData
  \/ ProcClose
  \/ ProcError
  \/ ProcCloseAfterError
  \/ SettleBuild
  \/ SettleRun

\* the call of spawn comes back: the process runs, or the call threw
SpawnReturns ==
  /\ pc = "spawn"
  /\ pc' \in {"awaiting", "settle", "rejected"}

\* the event loop delivers every event, the engine process ends, and the
\* user answers every dialog
RequestFairness ==
  /\ WF_vars(GuardProbeBinary)
  /\ WF_vars(GuardPromptAnswer)
  /\ WF_vars(GuardProbeDaemon)
  /\ WF_vars(PanelAfterGuard)
  /\ WF_pc(SpawnReturns)
  /\ WF_vars(ProcClose)
  /\ WF_vars(ProcError)
  /\ WF_vars(ProcCloseAfterError)
  /\ WF_vars(SettleBuild)
  /\ WF_vars(SettleRun)
  /\ WF_vars(PanelComplete)

SpecRequest == RequestInit /\ [][RequestNext]_vars /\ RequestFairness

\* the completion messages among those posted to the webview
CompletionsPosted ==
  SelectSeq(posted, LAMBDA message :
    message.command \in {"buildComplete", "runComplete", "buildRunComplete"})

\* isBuilding in the webview: set by the click that sent the request,
\* cleared by messageHandler on a completion message
WebviewIsBuilding == uiAction \in PanelCommands /\ CompletionsPosted = <<>>

\* C33: every TEST_BUILD, BUILD_IMAGE, RUN_CONTAINER and BUILD_AND_RUN
\* request is eventually answered by exactly one completion message, so
\* the webview's isBuilding returns to false
C33_RequestAnswered ==
  /\ [](Len(CompletionsPosted) <= 1)
  /\ WebviewIsBuilding ~> ~WebviewIsBuilding


(***************************************************************************)
(* What the builder webview shows for a completion message.                *)
(***************************************************************************)
\* message.field as a condition: an absent field is undefined, hence falsy
Truthy(message, field) ==
  IF field \in DOMAIN message THEN message[field] ELSE FALSE

\* messageHandler on buildComplete, runComplete and buildRunComplete:
\* setBuildResult({success: message.success || message.buildSuccess, error})
BuildResultShown(message) ==
  [success |-> Truthy(message, "success") \/ Truthy(message, "buildSuccess"),
   error |-> message.error]

\* C34: for a build-and-run action the run is started only after the build
\* succeeded, and the webview shows the action as successful only when both
\* the build and the run succeeded
C34_BuildAndRunShown ==
  uiAction = "BUILD_AND_RUN" =>
    /\ procs["run"] # NoProc => results["build"].set /\ results["build"].success
    /\ \A i \in 1..Len(CompletionsPosted) :
         BuildResultShown(CompletionsPosted[i]).success
           => /\ results["build"].set /\ results["build"].success
              /\ results["run"].set /\ results["run"].success


(***************************************************************************)
(* A builder request on a machine: what the probes and the engine process  *)
(* meet follows from the files on disk and the search path each is given.  *)
(***************************************************************************)
\* the engine binary in the search path of the host, in a well-known
\* directory outside of it, or nowhere
MachineDisks ==
  { {"/ws/Dockerfile"},
    {"/ws/Dockerfile", "/usr/bin/docker"},
    {"/ws/Dockerfile", "/opt/homebrew/bin/docker"} }

MachineInit ==
  /\ OrchBaseOn(MachineDisks, InitialEnvs)
  /\ UIInit
  /\ engineOutput = [stdout |-> {"Successfully built 0a1b2c3d4e5f\n"},
                     stderr |-> {}]

\* dockerExec(command): exec with {env: getDockerEnv()} finds the command
ProbeFindsEngine ==
  ShellFinds("docker", GetDockerEnv(processEnv, <<>>).PATH, fsFiles)

\* spawn("docker", args, {shell: true, env: {...process.env, ...}}) finds it
SpawnFindsEngine == ShellFinds("docker", processEnv.PATH, fsFiles)

MachineNext ==
  \/ PanelMessageFrom(PanelCommands, RequestPayloads)
  \/ GuardProbeBinaryWith({ProbeFindsEngine})
  \/ GuardPromptAnswer
  \/ GuardProbeDaemonWith(IF ProbeFindsEngine THEN BOOLEAN ELSE {FALSE})
  \/ PanelAfterGuard
  \/ PanelComplete
  \/ SpawnWith(IF SpawnFindsEngine THEN SpawnOutcomes \ {"noEngine"}
               ELSE {"noEngine"})
  \/ StdoutData
  \/ StderrData
  \/ ProcClose
  \/ ProcError
  \/ ProcCloseAfterError
  \/ SettleBuild
  \/ SettleRun

SpecMachine == MachineInit /\ [][MachineNext]_vars

\* C35: the build or run that follows a true ensureDockerReady is launched
\* with the engine the probes found: it does not fail for want of the
\* engine binary
C35_SameEngineAsProbes ==
  \A s \in ExecStages :
    (guardReturn = "true" /\ procs[s] # NoProc) => procs[s].engine


(***************************************************************************)
(* DockerHubAuthManager: login and logout calls, one after the other.      *)
(* A secret that is not stored reads as "".                                *)
(***************************************************************************)
MaxAuthCalls == 3

AuthUsernames == {"bob", "al"}
AuthTokens == {"", "s3cret"}

\* the replies exec may give to `docker login`: the engine refuses an
\* empty password on standard input
LoginReplies(token) ==
  IF token = "" THEN {r \in EngineReplies : r.error} ELSE EngineReplies

\* isAuthenticated(): !!(username && token)
IsAuthenticated(secrets) == secrets.username # "" /\ secrets.token # ""

\* a logout that clears the secrets only when the engine logout succeeded
SecretsAfterLogout_OnlyOnSuccess(secrets, engineOk) ==
  IF engineOk THEN NoSecrets ELSE secrets

\* logout: the error of execAsync is ignored; both keys are deleted
SecretsAfterLogout(secrets, engineOk) == NoSecrets

\* login after the exec callback: the promise rejected, or both are stored
SecretsAfterLogin(secrets, reply, username, token) ==
  IF reply.error THEN secrets ELSE [username |-> username, token |-> token]

\* login(username, token) up to the await of the exec promise
AuthLoginCall ==
  /\ auth.pc = "idle"
  /\ Len(auth.history) < MaxAuthCalls
  /\ \E u \in AuthUsernames, t \in AuthTokens :
       auth' = [auth EXCEPT !.pc = "login", !.username = u, !.token = t]
  /\ UNCHANGED <<call, pc, stage, fsFiles, tempDockerfilePath, unlinkFailed,
                 args, procs, resolved, pending, logs, errorOutput,
                 onOutputLines, channel, results, outcome, resolvedDockerPath,
                 pathCalls, processEnv, dockerEnv, inserts, builderVars, engineOutput,
                 uiVars>>

\* exec's callback: login stores and fires, or catches and returns the error
AuthLoginReply ==
  /\ auth.pc = "login"
  /\ \E reply \in LoginReplies(auth.token) :
       LET after == SecretsAfterLogin(auth.secrets, reply, auth.username,
                                      auth.token)
       IN  auth' = [auth EXCEPT
                      !.pc = "idle",
                      !.secrets = after,
                      !.fired = IF reply.error THEN @ ELSE Append(@, TRUE),
                      !.history = Append(@, [kind |-> "login",
                                             success |-> ~reply.error,
                                             before |-> auth.secrets,
                                             after |-> after])]
  /\ UNCHANGED <<call, pc, stage, fsFiles, tempDockerfilePath, unlinkFailed,
                 args, procs, resolved, pending, logs, errorOutput,
                 onOutputLines, channel, results, outcome, resolvedDockerPath,
                 pathCalls, processEnv, dockerEnv, inserts, builderVars, engineOutput,
                 uiVars>>

\* logout() up to the await of `docker logout`
AuthLogoutCall ==
  /\ auth.pc = "idle"
  /\ Len(auth.history) < MaxAuthCalls
  /\ auth' = [auth EXCEPT !.pc = "logout"]
  /\ UNCHANGED <<call, pc, stage, fsFiles, tempDockerfilePath, unlinkFailed,
                 args, procs, resolved, pending, logs, errorOutput,
                 onOutputLines, channel, results, outcome, resolvedDockerPath,
                 pathCalls, processEnv, dockerEnv, inserts, builderVars, engineOutput,
                 uiVars>>

\* `docker logout` ends, well or not: logout deletes both keys and fires
AuthLogoutReply ==
  /\ auth.pc = "logout"
  /\ \E engineOk \in BOOLEAN :
       LET after == SecretsAfterLogout(auth.secrets, engineOk)
       IN  auth' = [auth EXCEPT
                      !.pc = "idle",
                      !.secrets = after,
                      !.fired = Append(@, FALSE),
                      !.history = Append(@, [kind |-> "logout",
                                             success |-> engineOk,
                                             before |-> auth.secrets,
                                             after |-> after])]
  /\ UNCHANGED <<call, pc, stage, fsFiles, tempDockerfilePath, unlinkFailed,
                 args, procs, resolved, pending, logs, errorOutput,
                 onOutputLines, channel, results, outcome, resolvedDockerPath,
                 pathCalls, processEnv, dockerEnv, inserts, builderVars, engineOutput,
                 uiVars>>

AuthNext ==
  \/ AuthLoginCall
  \/ AuthLoginReply
  \/ AuthLogoutCall
  \/ AuthLogoutReply

SpecAuth == Init /\ [][AuthNext]_vars

\* the events the completed calls should have fired
RECURSIVE EventsOf(_)
EventsOf(history) ==
  IF history = <<>> THEN <<>>
  ELSE (IF history[1].kind = "logout" THEN <<FALSE>>
        ELSE IF history[1].success THEN <<TRUE>> ELSE <<>>)
       \o EventsOf(Tail(history))

\* C36: after any sequence of completed login and logout calls,
\* isAuthenticated() is true exactly when some login succeeded and no
\* logout completed after it. A login the engine refused stores nothing,
\* changes no stored credential and fires no event; a logout clears both
\* stored values and fires auth-changed(false) whether or not the engine
\* logout succeeded.
C36_AuthFollowsCalls ==
  LET h == auth.history
  IN  /\ IsAuthenticated(auth.secrets)
           <=> \E i \in 1..Len(h) :
                 /\ h[i].kind = "login" /\ h[i].success
                 /\ \A j \in (i + 1)..Len(h) : h[j].kind # "logout"
      /\ \A i \in 1..Len(h) :
           /\ (h[i].kind = "login" /\ ~h[i].success) => h[i].after = h[i].before
           /\ h[i].kind = "logout" => h[i].after = NoSecrets
      /\ auth.fired = EventsOf(h)

\* a login succeeded, a logout whose engine command failed followed, and a
\* refused login came last
C36_Witness ==
  /\ Len(auth.history) = 3
  /\ auth.history[1].kind = "login" /\ auth.history[1].success
  /\ auth.history[2].kind = "logout" /\ ~auth.history[2].success
  /\ auth.history[3].kind = "login" /\ ~auth.history[3].success


(***************************************************************************)
(* The Dockerfiles tree and its builder panels.  dockerfileItems is the    *)
(* provider's list, memento what it stored in globalState; panels is the   *)
(* static registry of DockForgePanel, webviewPanels the panels VS Code     *)
(* created for it.  A panel is named by its position in webviewPanels.     *)
(***************************************************************************)

\* the number of tree and panel operations followed
MaxTreeCalls == 4

\* the names typed into newDockerfile's input box, trimmed
DockerfileNames == {"Node.js App", "api"}

\* the data a builder webview sends with its save message
EditedData == {[content |-> "FROM node", updatedAt |-> 0]}

\* createDefaultDockerfileData(name), read at the clock value now
CreateDefaultDockerfileData(name, now) ==
  [id |-> DockerfileId(now),
   data |-> [content |-> "default:" \o name, updatedAt |-> now]]

\* new DockerfileTreeItem(label, id, data); no panel attached yet
DockerfileTreeItem(label, id, data) ==
  [label |-> label, id |-> id, data |-> data, webViewPanel |-> 0]

\* saveToMemento's value: label, id, description, data, filePath per item
StoredDockerfiles(items) ==
  [i \in 1..Len(items) |->
     [label |-> items[i].label, id |-> items[i].id,
      description |-> "undefined", data |-> items[i].data,
      filePath |-> "undefined"]]

\* loadFromMemento: the items a new provider builds from the stored value
LoadFromMemento(stored) ==
  [i \in 1..Len(stored) |->
     DockerfileTreeItem(stored[i].label, stored[i].id, stored[i].data)]

\* dockerfileItems.find(item => item.id === id): its position, 0 if none
FindItem(items, id) ==
  IF \E i \in 1..Len(items) : items[i].id = id
  THEN CHOOSE i \in 1..Len(items) :
         /\ items[i].id = id
         /\ \A j \in 1..(i - 1) : items[j].id # id
  ELSE 0

\* dockerfileItems.filter(item => item.id !== id)
ItemsAfterRemove(items, id) == SelectSeq(items, LAMBDA it : it.id # id)

\* updateDockerfileData: the found item gets the data and a new updatedAt
ItemsAfterUpdate(items, id, data, now) ==
  LET i == FindItem(items, id)
  IN  IF i = 0 THEN items
      ELSE [items EXCEPT ![i].data = [data EXCEPT !.updatedAt = now]]

\* a registry that forgets nothing
PanelsDelete_Keeps(registry, id) == registry

\* DockForgePanel.panels.delete(id)
PanelsDelete(registry, id) == [registry EXCEPT ![id] = 0]

\* DockForgePanel.render: reveal the registered panel or create and register
Render(registry, views, id) ==
  IF registry[id] # 0
  THEN [panels |-> registry,
        views |-> [views EXCEPT ![registry[id]].reveals = @ + 1],
        returned |-> registry[id]]
  ELSE [panels |-> [registry EXCEPT ![id] = Len(views) + 1],
        views |-> Append(views, [id |-> id, disposed |-> FALSE,
                                 reveals |-> 0]),
        returned |-> Len(views) + 1]

\* dispose() of panel h: delete its id, dispose the webview panel; the
\* onDidDispose listener calls dispose() once more, which changes nothing
Dispose(registry, views, h) ==
  [panels |-> PanelsDelete(registry, views[h].id),
   views |-> [views EXCEPT ![h].disposed = TRUE]]

\* DockForgePanel.closePanel(id)
ClosePanel(registry, views, id) ==
  IF registry[id] # 0 THEN Dispose(registry, views, registry[id])
  ELSE [panels |-> registry, views |-> views]

\* the webview panels created and not disposed
LivePanels == {h \in 1..Len(webviewPanels) : ~webviewPanels[h].disposed}

aroundBuilder == <<call, pc, stage, fsFiles, tempDockerfilePath, unlinkFailed,
                   args, procs, resolved, pending, logs, errorOutput,
                   onOutputLines, channel, results, outcome,
                   resolvedDockerPath, pathCalls, processEnv, dockerEnv,
                   inserts, auth, engineOutput, uiVars>>

\* a new extension host: nothing stored, no panel, the provider's list empty
DockerfilesInit ==
  /\ OrchBase
  /\ UIInit
  /\ engineOutput = [stdout |-> {}, stderr |-> {}]

\* dockforge.newDockerfile with a name: addDockerfile, then
\* openDockerfileBuilder(newItem)
NewDockerfile ==
  /\ Len(treeCalls) < MaxTreeCalls
  /\ \E name \in DockerfileNames :
       LET made == CreateDefaultDockerfileData(name, dateNow)
           newItem == DockerfileTreeItem(name, made.id, made.data)
           added == Append(dockerfileItems, newItem)
           r == Render(panels, webviewPanels, newItem.id)
       IN  /\ dockerfileItems' =
                [added EXCEPT ![Len(added)].webViewPanel = r.returned]
           /\ memento' = StoredDockerfiles(added)
           /\ panels' = r.panels
           /\ webviewPanels' = r.views
           /\ treeCalls' = Append(treeCalls,
                [op |-> "addDockerfile", id |-> newItem.id,
                 returned |-> r.returned])
  /\ UNCHANGED <<dateNow, aroundBuilder>>

\* dockforge.openDockerfileBuilder on a tree item
OpenDockerfileBuilder ==
  /\ Len(treeCalls) < MaxTreeCalls
  /\ \E i \in 1..Len(dockerfileItems) :
       LET r == Render(panels, webviewPanels, dockerfileItems[i].id)
       IN  /\ dockerfileItems' =
                [dockerfileItems EXCEPT ![i].webViewPanel = r.returned]
           /\ panels' = r.panels
           /\ webviewPanels' = r.views
           /\ treeCalls' = Append(treeCalls,
                [op |-> "render", id |-> dockerfileItems[i].id,
                 returned |-> r.returned])
  /\ UNCHANGED <<memento, dateNow, aroundBuilder>>

\* dockforge.showDockForge with the engine installed: render("default")
ShowDockForge ==
  /\ Len(treeCalls) < MaxTreeCalls
  /\ LET r == Render(panels, webviewPanels, "default")
     IN  /\ panels' = r.panels
         /\ webviewPanels' = r.views
         /\ treeCalls' = Append(treeCalls,
              [op |-> "render", id |-> "default", returned |-> r.returned])
  /\ UNCHANGED <<dockerfileItems, memento, dateNow, aroundBuilder>>

\* dockforge.deleteDockerfile on a tree item: removeDockerfile(treeItem.id)
DeleteDockerfile ==
  /\ Len(treeCalls) < MaxTreeCalls
  /\ \E i \in 1..Len(dockerfileItems) :
       LET id == dockerfileItems[i].id
           c == ClosePanel(panels, webviewPanels, id)
           left == ItemsAfterRemove(dockerfileItems, id)
       IN  /\ dockerfileItems' = left
           /\ memento' = StoredDockerfiles(left)
           /\ panels' = c.panels
           /\ webviewPanels' = c.views
           /\ treeCalls' = Append(treeCalls,
                [op |-> "removeDockerfile", id |-> id,
                 returned |-> panels[id]])
  /\ UNCHANGED <<dateNow, aroundBuilder>>

\* a live builder panel of the tree posts its data: the onDataUpdate
\* callback calls updateDockerfileData(panel's id, data)
PanelSavesData ==
  /\ Len(treeCalls) < MaxTreeCalls
  /\ \E h \in LivePanels, data \in EditedData :
       LET id == webviewPanels[h].id
           after == ItemsAfterUpdate(dockerfileItems, id, data, dateNow)
       IN  /\ id # "default"
           /\ dockerfileItems' = after
           /\ memento' = IF FindItem(dockerfileItems, id) = 0 THEN memento
                         ELSE StoredDockerfiles(after)
           /\ treeCalls' = Append(treeCalls,
                [op |-> "updateDockerfileData", id |-> id, returned |-> 0])
  /\ UNCHANGED <<panels, webviewPanels, dateNow, aroundBuilder>>

\* the user closes a builder panel: onDidDispose calls dispose()
UserClosesPanel ==
  /\ Len(treeCalls) < MaxTreeCalls
  /\ \E h \in LivePanels :
       LET d == Dispose(panels, webviewPanels, h)
       IN  /\ panels' = d.panels
           /\ webviewPanels' = d.views
           /\ treeCalls' = Append(treeCalls,
                [op |-> "dispose", id |-> webviewPanels[h].id,
                 returned |-> 0])
  /\ UNCHANGED <<dockerfileItems, memento, dateNow, aroundBuilder>>

\* a millisecond passes
DateNowTick ==
  /\ dateNow < MaxNow
  /\ dateNow' = dateNow + 1
  /\ UNCHANGED <<dockerfileItems, memento, panels, webviewPanels, treeCalls,
                 aroundBuilder>>

DockerfilesNext ==
  \/ NewDockerfile
  \/ OpenDockerfileBuilder
  \/ ShowDockForge
  \/ DeleteDockerfile
  \/ PanelSavesData
  \/ UserClosesPanel
  \/ DateNowTick

SpecDockerfiles == DockerfilesInit /\ [][DockerfilesNext]_vars

\* the live panels VS Code holds for an id
LivePanelsOf(id) == {h \in LivePanels : webviewPanels[h].id = id}

\* the step is the operation op of the tree or of a panel
BuilderStep(op) ==
  /\ Len(treeCalls') = Len(treeCalls) + 1
  /\ treeCalls'[Len(treeCalls')].op = op

\* C37: at every moment an id has at most one live builder panel and is in
\* the registry exactly when a panel created for it is not yet disposed, the
\* registered panel being that one; render of a registered id creates no
\* panel and returns the registered one; a dispose removes its id, and
\* removing a Dockerfile leaves no panel registered for its id
C37_OnePanelPerId ==
  /\ [](\A id \in PanelIds :
          /\ Cardinality(LivePanelsOf(id)) <= 1
          /\ (panels[id] # 0) <=> (LivePanelsOf(id) # {})
          /\ panels[id] # 0 => LivePanelsOf(id) = {panels[id]})
  /\ [][\A id \in PanelIds :
          /\ (BuilderStep("render") \/ BuilderStep("addDockerfile"))
               /\ treeCalls'[Len(treeCalls')].id = id /\ panels[id] # 0
             => /\ Len(webviewPanels') = Len(webviewPanels)
                /\ treeCalls'[Len(treeCalls')].returned = panels[id]
                /\ panels' = panels
          /\ (BuilderStep("dispose") \/ BuilderStep("removeDockerfile"))
               /\ treeCalls'[Len(treeCalls')].id = id
             => panels'[id] = 0 /\ LivePanelsOf(id)' = {}]_vars

\* a registered panel was revealed instead of a second one being created, and
\* a Dockerfile was removed while its panel was open
C37_Witness ==
  /\ \E h \in 1..Len(webviewPanels) : webviewPanels[h].reveals > 0
  /\ \E i \in 1..Len(treeCalls) :
       /\ treeCalls[i].op = "removeDockerfile"
       /\ treeCalls[i].returned # 0
       /\ webviewPanels[treeCalls[i].returned].disposed
       /\ panels[treeCalls[i].id] = 0


\* no two entries of the provider's list have the same id
DistinctIds ==
  \A i, j \in 1..Len(dockerfileItems) :
    i # j => dockerfileItems[i].id # dockerfileItems[j].id

\* globalState holds the list as saveToMemento writes it, and a new provider
\* would load the same entries from it
MementoIsList ==
  /\ memento = StoredDockerfiles(dockerfileItems)
  /\ StoredDockerfiles(LoadFromMemento(memento)) = memento

\* the positions of the entries with the id
EntriesWith(items, id) == {i \in 1..Len(items) : items[i].id = id}

\* C38: after any sequence of addDockerfile, removeDockerfile and
\* updateDockerfileData the entries have pairwise distinct ids and the
\* memento holds the in-memory list; removing an id takes exactly one entry
\* away, and updating an id that is in the list finds exactly one entry with
\* it and leaves every other entry as it was
C38_DistinctIdsPersisted ==
  /\ [](DistinctIds /\ MementoIsList)
  /\ [][/\ BuilderStep("removeDockerfile")
             => Len(dockerfileItems') = Len(dockerfileItems) - 1
        /\ BuilderStep("updateDockerfileData")
             /\ FindItem(dockerfileItems, treeCalls'[Len(treeCalls')].id) # 0
             => LET id == treeCalls'[Len(treeCalls')].id
                IN  /\ Len(dockerfileItems') = Len(dockerfileItems)
                    /\ Cardinality(EntriesWith(dockerfileItems, id)) = 1
                    /\ \A i \in 1..Len(dockerfileItems) :
                         dockerfileItems[i].id # id
                         => dockerfileItems'[i] = dockerfileItems[i]]_vars

\* the memento keeps up with the list whatever the ids are
C38_MementoFollows == MementoIsList

\* two entries with one id are in the list and in the memento
C38_SharedId ==
  /\ ~DistinctIds
  /\ MementoIsList

====
